---- MODULE Spec2Model ----
(***************************************************************************)
(* ferric-ftp: the SFTP client session (src/sftp/client.rs), the protocol  *)
(* engine (src/sftp/protocol.rs) and the session transport                 *)
(* (src/sftp/session.rs) as one state machine.                             *)
(*                                                                         *)
(* Strings are sequences of atoms: the atom "/" is the path separator and  *)
(* every other atom stands for a non-empty run of characters without a     *)
(* separator ("a", ".", "..", "test.txt").  Two such atoms are never       *)
(* adjacent, so splitting a string on '/' is selecting its atoms.          *)
(***************************************************************************)
EXTENDS Integers, Sequences, FiniteSets, TLC

\* ------------------------------------------------------------------ bounds
MaxRequests == 7   \* requests with an id written in one session
MaxCalls == 2      \* operations started in one session
MaxBatches == 2    \* Name batches a server returns for one listing
MaxPathLen == 4    \* atoms of a working directory resolve_path is applied to
MaxFrameSlack == 1 \* bytes a frame's length field is off by, either way

\* --------------------------------------------------------------- constants
SFTP_SUPPORTED_VERSION == 3
SftpStatus_Ok == 0
SftpStatus_Eof == 1
SftpStatus_InvalidHandle == 4
S_IFMT == 61440
S_IFDIR == 16384
S_IFREG == 32768
S_IFLNK == 40960
S_IFCHR == 8192
S_IFBLK == 24576
S_IFIFO == 4096
S_IFSOCK == 49152
SSH_FXF_READ == 1
chunk_size == 32768
SSH_FXP_INIT == 1
SSH_FXP_VERSION == 2
SSH_FXP_OPEN == 3
SSH_FXP_CLOSE == 4
SSH_FXP_OPENDIR == 11
SSH_FXP_READDIR == 12
SSH_FXP_REALPATH == 16
SSH_FXP_STAT == 17
SSH_FXP_STATUS == 101
SSH_FXP_HANDLE == 102
SSH_FXP_DATA == 103
SSH_FXP_NAME == 104
SSH_FXP_ATTRS == 105
SSH_FILEXFER_ATTR_SIZE == 1
SSH_FILEXFER_ATTR_UIDGID == 2
SSH_FILEXFER_ATTR_PERMISSIONS == 4
SSH_FILEXFER_ATTR_ACMODTIME == 8
\* 0x80000000: a u32 above 2^31 - 1 is held as its value less 2^32
SSH_FILEXFER_ATTR_EXTENDED == -2147483647 - 1

\* ----------------------------------------------------------------- strings
Sep == "/"
Root == <<"/">>
Dot == <<".">>
DotDot == <<"..">>
None == <<"None">>
PathA == <<"/", "a">>
TestTxt == <<"test.txt">>

Last(s) == s[Len(s)]
Front(s) == SubSeq(s, 1, Len(s) - 1)

\* Path::is_absolute
is_absolute(p) == Len(p) > 0 /\ p[1] = Sep

\* PathBuf::join (push): an absolute argument replaces the base, otherwise a
\* separator is added unless the base is empty or already ends with one.
path_join(base, p) ==
    IF is_absolute(p) THEN p
    ELSE IF Len(base) > 0 /\ Last(base) # Sep THEN base \o <<Sep>> \o p
    ELSE base \o p

\* split('/').filter(|s| !s.is_empty())
split_components(s) == SelectSeq(s, LAMBDA c : c # Sep)

RECURSIVE join_components(_)
\* format!("/{}", components.join("/"))
join_components(cs) ==
    IF Len(cs) = 0 THEN <<>>
    ELSE IF Len(cs) = 1 THEN <<cs[1]>>
    ELSE <<cs[1], Sep>> \o join_components(Tail(cs))

\* a parent that keeps the last component
get_parent_directory_no_pop(wd) ==
    LET components == split_components(wd) IN
    IF Len(components) = 0 THEN Root
    ELSE <<Sep>> \o join_components(components)

get_parent_directory(wd) ==
    LET components == split_components(wd) IN
    IF Len(components) = 0 THEN Root
    ELSE LET new_components == Front(components) IN
         IF Len(new_components) = 0 THEN Root
         ELSE <<Sep>> \o join_components(new_components)

\* a resolve_path without the arm for "."
resolve_path_no_dot(wd, path) ==
    IF is_absolute(path) THEN path
    ELSE IF path = DotDot THEN get_parent_directory(wd)
    ELSE path_join(wd, path)

resolve_path(wd, path) ==
    IF is_absolute(path) THEN path
    ELSE IF path = Dot THEN wd
    ELSE IF path = DotDot THEN get_parent_directory(wd)
    ELSE path_join(wd, path)

\* PathBuf keys of the directory cache compare by components: separators
\* collapse, a trailing separator and every "." but a leading one are dropped.
PathKey(p) ==
    LET abs == is_absolute(p)
        cs == split_components(p)
        keep(i) == cs[i] # "." \/ (i = 1 /\ ~abs)
        idx == {i \in 1..Len(cs) : keep(i)}
        RECURSIVE pick(_)
        pick(i) == IF i > Len(cs) THEN <<>>
                   ELSE IF i \in idx THEN <<cs[i]>> \o pick(i + 1)
                   ELSE pick(i + 1)
    IN (IF abs THEN <<Sep>> ELSE <<>>) \o join_components(pick(1))

\* --------------------------------------------------------- file attributes
\* Option<T>: None is the empty sequence, Some(v) is <<v>>
NoValue == <<>>
Some(v) == <<v>>

\* perms & S_IFMT (S_IFMT is the nibble 0xF000)
mask_ifmt(perms) == ((perms \div 4096) % 16) * 4096

file_type_from_permissions(perms) ==
    LET t == mask_ifmt(perms) IN
    CASE t = S_IFDIR -> "Directory"
      [] t = S_IFREG -> "RegularFile"
      [] t = S_IFLNK -> "Symlink"
      [] t = S_IFCHR -> "CharacterDevice"
      [] t = S_IFBLK -> "BlockDevice"
      [] t = S_IFIFO -> "Fifo"
      [] t = S_IFSOCK -> "Socket"
      [] OTHER -> "Unknown"

\* FileAttributes::default()
FileAttributes_default ==
    [size |-> NoValue, permissions |-> NoValue, modify_time |-> NoValue,
     file_type |-> "Unknown", is_directory |-> FALSE,
     is_regular_file |-> FALSE, is_symlink |-> FALSE]

\* SftpSession::parse_file_attributes, for a frame that carries the
\* permissions field only when perms # NoValue
parse_file_attributes(perms) ==
    IF perms = NoValue THEN FileAttributes_default
    ELSE LET ft == file_type_from_permissions(perms[1]) IN
         [FileAttributes_default EXCEPT
            !.permissions = perms, !.file_type = ft,
            !.is_directory = (ft = "Directory"),
            !.is_regular_file = (ft = "RegularFile"),
            !.is_symlink = (ft = "Symlink")]

FileInfo(name) ==
    [name |-> name, display_name |-> <<"-rw-r--r-- ">> \o name,
     attrs |-> FileAttributes_default]

\* ------------------------------------------------------------------ packets
Init_packet(version) == [type |-> "Init", version |-> version]
OpenDir(id, path) == [type |-> "OpenDir", request_id |-> id, path |-> path]
ReadDir(id, handle) == [type |-> "ReadDir", request_id |-> id, handle |-> handle]
Close(id, handle) == [type |-> "Close", request_id |-> id, handle |-> handle]
RealPath(id, path) == [type |-> "RealPath", request_id |-> id, path |-> path]
Stat(id, path) == [type |-> "Stat", request_id |-> id, path |-> path]
Open(id, path, pflags) ==
    [type |-> "Open", request_id |-> id, path |-> path, pflags |-> pflags]

Read(id, handle, offset, len) ==
    [type |-> "Read", request_id |-> id, handle |-> handle, offset |-> offset,
     len |-> len]

Version(v) == [type |-> "Version", version |-> v]
Handle(id, h) == [type |-> "Handle", request_id |-> id, handle |-> h]
Name(id, files) == [type |-> "Name", request_id |-> id, files |-> files]
Status(id, code, msg) ==
    [type |-> "Status", request_id |-> id, status_code |-> code, message |-> msg]
Attrs(id, attrs) == [type |-> "Attrs", request_id |-> id, attrs |-> attrs]
Data(id, data) == [type |-> "Data", request_id |-> id, data |-> data]

\* bytes are runs: a run stands for len bytes, told apart by its tag
Run(len, tag) == [len |-> len, tag |-> tag]

RECURSIVE data_len(_)
\* data.len()
data_len(data) ==
    IF data = <<>> THEN 0 ELSE data[1].len + data_len(Tail(data))

\* -------------------------------------------------------------------- codec
\* Bytes are the naturals 0..255 and a frame is a sequence of bytes.

\* u32::to_be_bytes; \div rounds down, so a u32 held as its value less 2^32
\* gives the bytes of the value
to_be_bytes(n) ==
    <<(n \div 16777216) % 256, (n \div 65536) % 256, (n \div 256) % 256, n % 256>>

RECURSIVE from_be_bytes(_)
\* u32::from_be_bytes, u64::from_be_bytes; a u32 with its top bit set comes
\* out as its value less 2^32
from_be_bytes(bytes) ==
    IF bytes = <<>> THEN 0
    ELSE IF Len(bytes) = 4 /\ bytes[1] >= 128
    THEN from_be_bytes(<<bytes[1] - 128>> \o Tail(bytes)) - 2147483647 - 1
    ELSE from_be_bytes(Front(bytes)) * 256 + Last(bytes)

\* SftpPacketInfo::packet_type for ClientPacket
packet_type(pkt) ==
    CASE pkt.type = "Init" -> SSH_FXP_INIT
      [] pkt.type = "OpenDir" -> SSH_FXP_OPENDIR
      [] pkt.type = "ReadDir" -> SSH_FXP_READDIR
      [] pkt.type = "Close" -> SSH_FXP_CLOSE
      [] pkt.type = "RealPath" -> SSH_FXP_REALPATH
      [] pkt.type = "Stat" -> SSH_FXP_STAT
      [] pkt.type = "Open" -> SSH_FXP_OPEN

\* a header whose length field also counts itself
add_header_counting_itself(payload) == to_be_bytes(Len(payload) + 4) \o payload

\* ClientPacket::add_header, add_u32, add_string, add_bytes
add_header(payload) == to_be_bytes(Len(payload)) \o payload
add_u32(payload, num) == payload \o to_be_bytes(num)
add_string(payload, string) == payload \o to_be_bytes(Len(string)) \o string
add_bytes(payload, bytes) == payload \o to_be_bytes(Len(bytes)) \o bytes

\* ClientPacket::to_bytes; paths and handles are byte strings here. Open
\* writes no attrs.
to_bytes(pkt) ==
    LET tag == <<packet_type(pkt)>>
        payload ==
          CASE pkt.type = "Init" -> tag \o to_be_bytes(pkt.version)
            [] pkt.type \in {"OpenDir", "RealPath", "Stat"} ->
                 add_string(add_u32(tag, pkt.request_id), pkt.path)
            [] pkt.type \in {"ReadDir", "Close"} ->
                 add_bytes(add_u32(tag, pkt.request_id), pkt.handle)
            [] pkt.type = "Open" ->
                 add_u32(add_string(add_u32(tag, pkt.request_id), pkt.path),
                         pkt.pflags)
    IN add_header(payload)

\* A reader at work: the bytes it reads from, how many it has consumed, the
\* value it read last, from_reader's remaining_bytes, and how the decoding
\* stands: "Ok", "Err" (an Err was returned) or "Panic". reader is
\* "SftpSession" or "BufferReader"; checked says whether the build traps
\* integer overflow (debug) or wraps (release). A negative remaining stands
\* for the wrapped value 2^64 + remaining.
Reader(reader, checked, data) ==
    [reader |-> reader, checked |-> checked, data |-> data, position |-> 0,
     status |-> "Ok", value |-> 0, remaining |-> 0]

Failed(s, how) == [s EXCEPT !.status = how]

\* a `let`: f is [x \in {v} |-> e]; v is evaluated once and the result is e
\* with x standing for its value
Let(f) == CHOOSE r \in {g[CHOOSE x \in DOMAIN g : TRUE] : g \in {f}} : TRUE

\* read_exact of n bytes / the bounds check of BufferReader, then the bytes;
\* a negative n is a length of 2^31 or more, which no input here supplies
read_exact(reader, n) ==
    Let([s \in {reader} |->
      IF s.status # "Ok" THEN s
      ELSE IF n < 0 \/ s.position + n > Len(s.data) THEN Failed(s, "Err")
      ELSE [s EXCEPT !.position = @ + n,
                     !.value = SubSeq(s.data, s.position + 1, s.position + n)]])

\* read_u8, read_u32, read_u64
read_u8(reader) ==
    Let([t \in {read_exact(reader, 1)} |->
      IF t.status # "Ok" THEN t ELSE [t EXCEPT !.value = t.value[1]]])
read_u32(reader) ==
    Let([t \in {read_exact(reader, 4)} |->
      IF t.status # "Ok" THEN t ELSE [t EXCEPT !.value = from_be_bytes(t.value)]])
read_u64(reader) ==
    Let([t \in {read_exact(reader, 8)} |->
      IF t.status # "Ok" THEN t ELSE [t EXCEPT !.value = from_be_bytes(t.value)]])

\* read_string: a length, then that many bytes
read_string(reader) ==
    Let([t \in {read_u32(reader)} |->
      IF t.status # "Ok" THEN t ELSE read_exact(t, t.value)])

\* discard(bytes). A wrapped count makes SftpSession allocate a buffer of
\* that size, which panics; in BufferReader position + bytes wraps as well,
\* the bounds check passes and position moves back.
discard(reader, bytes) ==
    Let([s \in {reader} |->
      IF s.status # "Ok" THEN s
      ELSE IF bytes >= 0
      THEN IF s.position + bytes > Len(s.data) THEN Failed(s, "Err")
           ELSE [s EXCEPT !.position = @ + bytes]
      ELSE IF s.reader = "SftpSession" THEN Failed(s, "Panic")
      ELSE IF s.position + bytes < 0 THEN Failed(s, "Err")
      ELSE [s EXCEPT !.position = @ + bytes]])

\* remaining_bytes -= n on a usize: traps when it would go below zero in a
\* checked build, wraps otherwise
sub_remaining(reader, n) ==
    Let([s \in {reader} |->
      IF s.status # "Ok" THEN s
      ELSE IF s.remaining >= 0 /\ s.remaining < n /\ s.checked
      THEN Failed(s, "Panic")
      ELSE [s EXCEPT !.remaining = @ - n]])

\* flags & bit != 0, for a bit that is a power of two
has_flag(flags, bit) ==
    IF bit = SSH_FILEXFER_ATTR_EXTENDED THEN flags < 0
    ELSE (flags \div bit) % 2 = 1

\* String::from_utf8 succeeds: the frames decoded here carry ASCII or the
\* byte 0xFF, which no UTF-8 string contains
from_utf8_ok(bytes) == \A i \in DOMAIN bytes : bytes[i] < 128

RECURSIVE read_extended(_, _)
\* the loop over the extended pairs: count times a name and a value; value
\* is what the loop adds to len
read_extended(reader, count) ==
    Let([s \in {reader} |->
      IF s.status # "Ok" THEN s
      ELSE IF count = 0 THEN [s EXCEPT !.value = 0]
      ELSE
        Let([name \in {read_string(s)} |->
        Let([value \in {read_string(name)} |->
        Let([rest \in {read_extended(value, count - 1)} |->
          IF rest.status # "Ok" THEN rest
          ELSE [rest EXCEPT !.value =
                  8 + Len(name.value) + Len(value.value) + rest.value]])])])])

\* a parse_file_attributes that reports 4 bytes for the two times
file_attributes_len_short(flags, extended) ==
    (IF has_flag(flags, SSH_FILEXFER_ATTR_SIZE) THEN 8 ELSE 0)
    + (IF has_flag(flags, SSH_FILEXFER_ATTR_UIDGID) THEN 8 ELSE 0)
    + (IF has_flag(flags, SSH_FILEXFER_ATTR_PERMISSIONS) THEN 4 ELSE 0)
    + (IF has_flag(flags, SSH_FILEXFER_ATTR_ACMODTIME) THEN 4 ELSE 0)
    + (IF has_flag(flags, SSH_FILEXFER_ATTR_EXTENDED) THEN 4 + extended ELSE 0)

\* the len parse_file_attributes has added up when it returns; extended is
\* what the pairs added
file_attributes_len(flags, extended) ==
    (IF has_flag(flags, SSH_FILEXFER_ATTR_SIZE) THEN 8 ELSE 0)
    + (IF has_flag(flags, SSH_FILEXFER_ATTR_UIDGID) THEN 8 ELSE 0)
    + (IF has_flag(flags, SSH_FILEXFER_ATTR_PERMISSIONS) THEN 4 ELSE 0)
    + (IF has_flag(flags, SSH_FILEXFER_ATTR_ACMODTIME) THEN 8 ELSE 0)
    + (IF has_flag(flags, SSH_FILEXFER_ATTR_EXTENDED) THEN 4 + extended ELSE 0)

\* parse_file_attributes of SftpSession and of BufferReader: value is
\* <<len, attrs>>. Only SftpSession derives file_type and the three booleans
\* from the permissions.
file_attributes(reader, flags) ==
    Let([s \in {reader} |->
    Let([s1 \in {IF has_flag(flags, SSH_FILEXFER_ATTR_SIZE) THEN read_u64(s) ELSE s} |->
    Let([s2 \in {IF has_flag(flags, SSH_FILEXFER_ATTR_UIDGID)
         THEN read_u32(read_u32(s1)) ELSE s1} |->
    Let([s3 \in {IF has_flag(flags, SSH_FILEXFER_ATTR_PERMISSIONS)
         THEN read_u32(s2) ELSE s2} |->
    Let([s4 \in {IF has_flag(flags, SSH_FILEXFER_ATTR_ACMODTIME)
         THEN read_u32(read_u32(s3)) ELSE s3} |->
    Let([extended_count \in {IF has_flag(flags, SSH_FILEXFER_ATTR_EXTENDED)
         THEN read_u32(s4) ELSE s4} |->
    Let([s5 \in {IF has_flag(flags, SSH_FILEXFER_ATTR_EXTENDED)
         THEN read_extended(extended_count, extended_count.value)
         ELSE s4} |->
      LET size == IF has_flag(flags, SSH_FILEXFER_ATTR_SIZE)
                  THEN Some(s1.value) ELSE NoValue
          perms == IF has_flag(flags, SSH_FILEXFER_ATTR_PERMISSIONS)
                   THEN Some(s3.value) ELSE NoValue
          mtime == IF has_flag(flags, SSH_FILEXFER_ATTR_ACMODTIME)
                   THEN Some(s4.value) ELSE NoValue
          plain == [FileAttributes_default EXCEPT
                      !.size = size, !.permissions = perms, !.modify_time = mtime]
          typed == IF perms = NoValue THEN plain
                   ELSE LET ft == file_type_from_permissions(perms[1]) IN
                        [plain EXCEPT !.file_type = ft,
                                      !.is_directory = (ft = "Directory"),
                                      !.is_regular_file = (ft = "RegularFile"),
                                      !.is_symlink = (ft = "Symlink")]
      IN IF s5.status # "Ok" THEN s5
         ELSE [s5 EXCEPT !.value =
                 <<file_attributes_len(flags, s5.value),
                   IF s.reader = "SftpSession" THEN typed ELSE plain>>]])])])])])])])

RECURSIVE read_names(_, _, _)
\* the loop of the SSH_FXP_NAME arm: count entries of name, display name,
\* attribute flags and attributes; value is the files read
read_names(reader, count, files) ==
    Let([s \in {reader} |->
      IF s.status # "Ok" THEN s
      ELSE IF count = 0 THEN [s EXCEPT !.value = files]
      ELSE
        Let([s1 \in {read_string(s)} |->
        Let([s2 \in {read_string(s1)} |->
        Let([s3 \in {IF s2.status # "Ok" THEN s2
             ELSE sub_remaining(s2, 8 + Len(s1.value) + Len(s2.value))} |->
        Let([s4 \in {read_u32(s3)} |->
        Let([s5 \in {sub_remaining(s4, 4)} |->
        Let([s6 \in {IF s5.status # "Ok" THEN s5 ELSE file_attributes(s5, s4.value)} |->
        Let([s7 \in {IF s6.status # "Ok" THEN s6 ELSE sub_remaining(s6, s6.value[1])} |->
          IF s7.status # "Ok" THEN s7
          ELSE IF ~from_utf8_ok(s1.value) \/ ~from_utf8_ok(s2.value)
          THEN Failed(s7, "Err")
          ELSE read_names(s7, count - 1,
                          Append(files, [name |-> s1.value,
                                         display_name |-> s2.value,
                                         attrs |-> s6.value[2]]))])])])])])])])])

\* a Handle arm that drops the first byte of the handle
decode_handle_tail(request_id, handle) ==
    Handle(request_id, IF handle = <<>> THEN handle ELSE Tail(handle))

\* Ok(ServerPacket::Handle { request_id, handle })
decode_handle(request_id, handle) == Handle(request_id, handle)

\* ServerPacket::from_reader: the reader after the call, with value the
\* packet when status is "Ok"
from_reader(reader) ==
    Let([l \in {read_u32(reader)} |->
    Let([t \in {read_u8(l)} |->
    Let([r0 \in {IF t.status # "Ok" THEN t
         ELSE sub_remaining([t EXCEPT !.remaining = l.value], 1)} |->
      IF r0.status # "Ok" THEN r0
      ELSE CASE t.value = SSH_FXP_VERSION ->
                  Let([v \in {read_u32(r0)} |->
                  Let([r1 \in {sub_remaining(v, 4)} |->
                  Let([d \in {IF r1.status # "Ok" THEN r1
                       ELSE discard(r1, r1.remaining)} |->
                    IF d.status # "Ok" THEN d
                    ELSE [d EXCEPT !.value = Version(v.value)]])])])
             [] t.value = SSH_FXP_HANDLE ->
                  Let([i \in {read_u32(r0)} |->
                  Let([h \in {read_string(sub_remaining(i, 4))} |->
                  Let([r2 \in {IF h.status # "Ok" THEN h
                       ELSE sub_remaining(h, 4 + Len(h.value))} |->
                    IF r2.status # "Ok" THEN r2
                    ELSE [r2 EXCEPT !.value = decode_handle(i.value, h.value)]])])])
             [] t.value = SSH_FXP_NAME ->
                  Let([i \in {read_u32(r0)} |->
                  Let([c \in {read_u32(sub_remaining(i, 4))} |->
                  Let([r2 \in {sub_remaining(c, 4)} |->
                  Let([n \in {IF r2.status # "Ok" THEN r2
                       ELSE read_names(r2, c.value, <<>>)} |->
                  Let([d \in {IF n.status # "Ok" THEN n
                       ELSE IF n.remaining # 0 THEN discard(n, n.remaining)
                       ELSE n} |->
                    IF d.status # "Ok" THEN d
                    ELSE [d EXCEPT !.value = Name(i.value, n.value)]])])])])])
             [] t.value = SSH_FXP_STATUS ->
                  Let([i \in {read_u32(r0)} |->
                  Let([c \in {read_u32(sub_remaining(i, 4))} |->
                  Let([m \in {read_string(sub_remaining(c, 4))} |->
                  Let([r3 \in {IF m.status # "Ok" THEN m
                       ELSE IF ~from_utf8_ok(m.value) THEN Failed(m, "Err")
                       ELSE sub_remaining(m, 1 + Len(m.value))} |->
                  Let([g \in {read_string(r3)} |->
                  Let([r4 \in {IF g.status # "Ok" THEN g
                       ELSE sub_remaining(g, 1 + Len(g.value))} |->
                    IF r4.status # "Ok" THEN r4
                    ELSE [r4 EXCEPT !.value =
                            Status(i.value, c.value, m.value)]])])])])])])
             [] t.value = SSH_FXP_ATTRS ->
                  Let([i \in {read_u32(r0)} |->
                  Let([f \in {read_u32(sub_remaining(i, 4))} |->
                  Let([r2 \in {sub_remaining(f, 4)} |->
                  Let([a \in {IF r2.status # "Ok" THEN r2
                       ELSE file_attributes(r2, f.value)} |->
                  Let([r3 \in {IF a.status # "Ok" THEN a
                       ELSE sub_remaining(a, a.value[1])} |->
                    IF r3.status # "Ok" THEN r3
                    ELSE [r3 EXCEPT !.value = Attrs(i.value, a.value[2])]])])])])])
             [] OTHER -> Failed(r0, "Err")])])])

\* ServerPacket::from_bytes and ServerPacket::from_session
from_bytes(checked, data) == from_reader(Reader("BufferReader", checked, data))
from_session(checked, data) == from_reader(Reader("SftpSession", checked, data))

\* an SSH_FXP_HANDLE frame as the server writes it: length, tag, request id,
\* length-prefixed handle
Handle_frame(request_id, handle) ==
    to_be_bytes(9 + Len(handle)) \o <<SSH_FXP_HANDLE>> \o to_be_bytes(request_id)
    \o to_be_bytes(Len(handle)) \o handle

\* the frame of test_server_packet_handle with the length its fields occupy
HandleFrame == Handle_frame(0, <<1, 2, 3>>)

\* what the server may answer: every variant ServerPacket::from_reader builds
Handles == {from_session(TRUE, HandleFrame).value.handle}
NameLists ==
    {<<>>, <<FileInfo(Root)>>, <<FileInfo(PathA)>>,
     <<FileInfo(TestTxt), FileInfo(PathA)>>}
StatusResponses ==
    {Status(0, SftpStatus_Ok, "OK"), Status(1, SftpStatus_Eof, ""),
     Status(2, SftpStatus_InvalidHandle, "bad handle")}
Permissions == {Some(16877), Some(33188)}
Responses ==
    {Version(SFTP_SUPPORTED_VERSION)}
    \cup {Handle(0, h) : h \in Handles}
    \cup {Name(0, fs) : fs \in NameLists}
    \cup StatusResponses
    \cup {Attrs(0, parse_file_attributes(p)) : p \in Permissions}

\* the Data responses SftpProtocol::read matches on: a full chunk, a short
\* one, an empty one, and one longer than the len that was asked for, which
\* read does not check for
DataResponses ==
    {Data(0, <<Run(chunk_size, "full")>>),
     Data(0, <<Run(chunk_size - 1, "short")>>),
     Data(0, <<>>),
     Data(0, <<Run(chunk_size + 1, "long")>>)}

\* ServerPacket::from_session returning Err (read_exact failed, unknown
\* message type, invalid UTF-8)
RecvFail == [type |-> "RecvFail"]
Received == Responses \cup {RecvFail}

\* outcomes of SftpSession::send_packet: write_all and flush succeed,
\* write_all fails, or write_all succeeds and flush fails
SendOutcomes == {"ok", "write_fail", "flush_fail"}

\* a path with a byte sequence that is not UTF-8, and Path::to_str being Some
BadUtf8 == <<"\\xFF">>
to_str_always(path) == TRUE
to_str(path) == \A i \in DOMAIN path : path[i] # BadUtf8[1]

\* paths a caller passes to Ls and Cd
ArgPaths == {None, Dot, DotDot, <<"a">>, PathA, BadUtf8}

\* ------------------------------------------------------------------- state
VARIABLES
    pc,               \* position of the running operation
    channel,          \* what went over the transport: the requests written and
                      \* the responses consumed by the running operation, the
                      \* ids written so far, the requests awaiting a response
    next_request_id,  \* SftpSession.next_request_id
    working_dir,      \* SftpClient.working_dir
    directory_cache,  \* SftpClient.directory_cache, by PathKey
    current_listing,  \* SftpClient.current_listing
    handles,          \* SftpClient.handles, by path string
    frame,            \* locals of the running operation
    result,           \* what the last finished operation returned, NoResult
                      \* while an operation runs
    ncalls            \* operations started

vars == <<pc, channel, next_request_id, working_dir, directory_cache,
          current_listing, handles, frame, result, ncalls>>

client_vars == <<working_dir, directory_cache, current_listing, handles>>

\* ----------------------------------------------------------------- results
Res(op, target, kind, code, rid, msg, value) ==
    [op |-> op, target |-> target, kind |-> kind, code |-> code,
     request_id |-> rid, message |-> msg, value |-> value]
Ok(op, target, value) == Res(op, target, "Ok", 0, 0, "", value)
Err(op, target, kind, msg) == Res(op, target, kind, 0, 0, msg, <<>>)
\* a ServerError that keeps the code and the message but not the request id
ServerError_without_id(op, target, st) ==
    Res(op, target, "ServerError", st.status_code, 0, st.message, <<>>)

ServerError(op, target, st) ==
    Res(op, target, "ServerError", st.status_code, st.request_id, st.message, <<>>)
NoResult == Res("none", <<>>, "none", 0, 0, "", <<>>)

NoFrame == [op |-> "none", target_path |-> <<>>, path_str |-> <<>>,
            handle |-> <<>>, files |-> <<>>, offset |-> 0, data |-> <<>>,
            pre |-> <<>>]

\* HashMap::new(), HashMap::insert, HashMap::remove
EmptyMap == [k \in {} |-> <<>>]
\* an insert that empties the map first
map_insert_alone(m, k, v) == [x \in {k} |-> v]
map_insert(m, k, v) == [x \in DOMAIN m \cup {k} |-> IF x = k THEN v ELSE m[x]]
map_remove(m, k) == [x \in DOMAIN m \ {k} |-> m[x]]

\* ----------------------------------------------------------------- channel
\* write_all(Init) in SftpClient::new / SftpSession::new: no flush follows
write_init(ch, pkt, ok) ==
    IF ok THEN [ch EXCEPT !.sent = Append(@, pkt), !.in_flight = @ + 1,
                          !.flushed = FALSE]
    ELSE ch

\* SftpSession::send_packet: write_all, then flush.  A frame whose flush
\* failed is on the transport, and its response will not be read.
send_packet(ch, pkt, outcome) ==
    IF outcome = "write_fail" THEN ch
    ELSE IF outcome = "flush_fail"
    THEN [ch EXCEPT !.sent = Append(@, pkt),
                    !.ids = Append(@, pkt.request_id),
                    !.flushed = FALSE, !.lost = TRUE]
    ELSE [ch EXCEPT !.sent = Append(@, pkt),
                    !.ids = Append(@, pkt.request_id),
                    !.flushed = TRUE, !.in_flight = @ + 1]

\* a read that takes nothing off the transport
receive_packet_nothing(ch, r) ==
    IF r.type = "RecvFail" THEN [ch EXCEPT !.lost = TRUE]
    ELSE [ch EXCEPT !.recvd = Append(@, r)]

\* ServerPacket::from_session: a response is consumed, or the read fails and
\* the request it was for stays unanswered
receive_packet(ch, r) ==
    IF r.type = "RecvFail"
    THEN [ch EXCEPT !.in_flight = @ - 1, !.lost = TRUE]
    ELSE [ch EXCEPT !.recvd = Append(@, r), !.in_flight = @ - 1]

\* the per-operation logs start empty at each operation
begin_call(ch) == [ch EXCEPT !.sent = <<>>, !.recvd = <<>>]

Budget == Len(channel.ids) < MaxRequests

\* Name responses received so far by the running operation (the iterations
\* of the ReadDir loop that extended all_files)
batches(ch) == Cardinality({i \in DOMAIN ch.recvd : ch.recvd[i].type = "Name"})

Init ==
    /\ pc = "start"
    /\ channel = [sent |-> <<>>, recvd |-> <<>>, ids |-> <<>>, in_flight |-> 0,
                  lost |-> FALSE, flushed |-> TRUE]
    /\ next_request_id = 0
    /\ working_dir = <<>>
    /\ directory_cache = EmptyMap
    /\ current_listing = <<>>
    /\ handles = EmptyMap
    /\ frame = NoFrame
    /\ result = NoResult
    /\ ncalls = 0

\* the locals of a client operation as it starts; pre remembers the session
\* state the operation started from
CallFrame(op, path_str, target_path) ==
    [NoFrame EXCEPT !.op = op, !.path_str = path_str, !.target_path = target_path,
                    !.pre = [working_dir |-> working_dir,
                             current_listing |-> current_listing,
                             directory_cache |-> directory_cache]]

\* an operation returns r and control goes to p
Return(p, r) ==
    /\ pc' = p
    /\ frame' = NoFrame
    /\ result' = r

\* ------------------------------------------------------ SftpClient::new
SftpClient_new ==
    /\ pc = "start"
    /\ \E ok \in BOOLEAN :
         /\ channel' = write_init(channel, Init_packet(SFTP_SUPPORTED_VERSION), ok)
         /\ IF ok
            THEN /\ pc' = "new_recv_version"
                 /\ frame' = [NoFrame EXCEPT !.op = "new"]
                 /\ UNCHANGED result
            ELSE Return("failed", Err("new", <<>>, "ClientError", "write_all"))
    /\ UNCHANGED <<next_request_id, client_vars, ncalls>>

\* the seed path of the working directory
new_seed_path == Dot

\* a construction that goes on after any response to Init
new_init_response_any(r) ==
    CASE r.type = "RecvFail" -> Err("new", <<>>, "ClientError", "from_session")
      [] OTHER -> Ok("new", <<>>, <<>>)

\* the match on the response to Init
new_init_response(r) ==
    CASE r.type = "Version" -> Ok("new", <<>>, <<>>)
      [] r.type = "RecvFail" -> Err("new", <<>>, "ClientError", "from_session")
      [] OTHER -> Err("new", <<>>, "ClientError",
                      "SFTP error when creating SFTP session")

\* the match on the response to the RealPath request
new_realpath_response(r) ==
    CASE r.type = "Name" ->
           IF Len(r.files) = 1 THEN Ok("new", <<>>, r.files[1].name)
           ELSE Err("new", <<>>, "ClientError",
                    "Unexpected number of paths in realpath response")
      [] r.type = "Status" -> ServerError("new", <<>>, r)
      [] r.type = "RecvFail" -> Err("new", <<>>, "ClientError", "from_session")
      [] OTHER -> Err("new", <<>>, "ClientError",
                      "Unexpected response type for realpath")

SftpClient_new_recv_version ==
    /\ pc = "new_recv_version"
    /\ \E r \in Received :
         LET ch == receive_packet(channel, r)
             res == new_init_response(r)
             realpath_packet == RealPath(next_request_id, new_seed_path)
         IN IF res.kind = "Ok"
            THEN /\ next_request_id' = next_request_id + 1
                 /\ \E outcome \in SendOutcomes :
                      /\ channel' = send_packet(ch, realpath_packet, outcome)
                      /\ IF outcome = "ok"
                         THEN /\ pc' = "new_recv_realpath"
                              /\ UNCHANGED <<frame, result>>
                         ELSE Return("failed", Err("new", <<>>, "IoError", "send_packet"))
            ELSE /\ channel' = ch
                 /\ Return("failed", res)
                 /\ UNCHANGED next_request_id
    /\ UNCHANGED <<client_vars, ncalls>>

SftpClient_new_recv_realpath ==
    /\ pc = "new_recv_realpath"
    /\ \E r \in Received :
         LET res == new_realpath_response(r) IN
         /\ channel' = receive_packet(channel, r)
         /\ IF res.kind = "Ok"
            THEN /\ working_dir' = res.value
                 /\ directory_cache' = EmptyMap
                 /\ current_listing' = <<>>
                 /\ handles' = EmptyMap
                 /\ Return("idle", res)
            ELSE /\ Return("failed", res)
                 /\ UNCHANGED client_vars
    /\ UNCHANGED <<next_request_id, ncalls>>

\* --------------------------------------------- SftpClient::list_directory
\* a lookup that never finds an entry
cache_hit_never(cache, target_path) == FALSE

\* directory_cache.get(&target_path) is Some
cache_hit(cache, target_path) == PathKey(target_path) \in DOMAIN cache

\* a target that is the argument as the caller wrote it
list_target_raw(wd, path) == IF path = None THEN wd ELSE path

\* the path list_directory lists
list_target(wd, path) == IF path = None THEN wd ELSE resolve_path(wd, path)

\* names put in front of the files read so far
extend_front(files, names) == names \o files

\* files.extend(names)
extend(files, names) == files \o names

\* the match on the response to OpenDir
list_opendir_response(target, r) ==
    CASE r.type = "Handle" -> Ok("ls", target, r.handle)
      [] r.type = "Status" -> ServerError("ls", target, r)
      [] r.type = "RecvFail" -> Err("ls", target, "ClientError", "from_session")
      [] OTHER -> Err("ls", target, "UnexpectedPacket",
                      "Unexpected packet while getting directory handle.")

\* a match that goes round the loop again on Status EOF
list_readdir_response_eof_goes_on(target, r) ==
    CASE r.type = "Name" -> Ok("ls", target, r.files)
      [] r.type = "Status" ->
           IF r.status_code = SftpStatus_Eof
           THEN Ok("ls", target, <<>>)
           ELSE ServerError("ls", target, r)
      [] r.type = "RecvFail" -> Err("ls", target, "ClientError", "from_session")
      [] OTHER -> Err("ls", target, "UnexpectedPacket",
                      "Unexpected packet when reading directory.")

\* the match on the response to ReadDir: "Ok" goes round the loop again,
\* "Break" leaves it
list_readdir_response(target, r) ==
    CASE r.type = "Name" -> Ok("ls", target, r.files)
      [] r.type = "Status" ->
           IF r.status_code = SftpStatus_Eof
           THEN Res("ls", target, "Break", 0, 0, "", <<>>)
           ELSE ServerError("ls", target, r)
      [] r.type = "RecvFail" -> Err("ls", target, "ClientError", "from_session")
      [] OTHER -> Err("ls", target, "UnexpectedPacket",
                      "Unexpected packet when reading directory.")

\* a Close whose Status is never looked at
list_close_response_any_status(target, r) ==
    CASE r.type = "RecvFail" -> Err("ls", target, "ClientError", "from_session")
      [] OTHER -> Ok("ls", target, <<TRUE>>)

\* the if-let on the response to Close
list_close_response(target, r) ==
    CASE r.type = "Status" ->
           IF r.status_code # SftpStatus_Ok THEN ServerError("ls", target, r)
           ELSE Ok("ls", target, <<TRUE>>)
      [] r.type = "RecvFail" -> Err("ls", target, "ClientError", "from_session")
      [] OTHER -> Ok("ls", target, <<TRUE>>)

list_directory(path) ==
    /\ pc = "idle"
    /\ ncalls < MaxCalls
    /\ ncalls' = ncalls + 1
    /\ LET target_path == list_target(working_dir, path) IN
       IF cache_hit(directory_cache, target_path)
       THEN /\ current_listing' = directory_cache[PathKey(target_path)]
            /\ channel' = begin_call(channel)
            /\ Return("idle", Ok("ls", target_path, <<TRUE>>))
            /\ UNCHANGED <<next_request_id, working_dir, directory_cache, handles>>
       ELSE IF ~to_str(target_path)
       THEN /\ channel' = begin_call(channel)
            /\ Return("idle", Err("ls", target_path, "ClientError",
                                  "Invalid UTF-8 in path"))
            /\ UNCHANGED <<next_request_id, client_vars>>
       ELSE /\ Budget
            /\ \E outcome \in SendOutcomes :
                 LET opendir_packet == OpenDir(next_request_id, target_path) IN
                 /\ channel' = send_packet(begin_call(channel), opendir_packet, outcome)
                 /\ IF outcome = "ok"
                    THEN /\ next_request_id' = next_request_id + 1
                         /\ pc' = "ls_recv_opendir"
                         /\ frame' = CallFrame("ls", target_path, target_path)
                         /\ result' = NoResult
                    ELSE /\ Return("idle", Err("ls", target_path, "IoError", "send_packet"))
                         /\ UNCHANGED next_request_id
            /\ UNCHANGED client_vars

list_directory_recv_opendir ==
    /\ pc = "ls_recv_opendir"
    /\ Budget
    /\ \E r \in Received :
         LET ch == receive_packet(channel, r)
             res == list_opendir_response(frame.target_path, r)
             readdir_packet == ReadDir(next_request_id, res.value)
         IN IF res.kind = "Ok"
            THEN /\ handles' = map_insert(handles, frame.path_str, res.value)
                 /\ \E outcome \in SendOutcomes :
                      /\ channel' = send_packet(ch, readdir_packet, outcome)
                      /\ IF outcome = "ok"
                         THEN /\ next_request_id' = next_request_id + 1
                              /\ pc' = "ls_recv_readdir"
                              /\ frame' = [frame EXCEPT !.handle = res.value]
                              /\ UNCHANGED result
                         ELSE /\ Return("idle", Err("ls", frame.target_path,
                                                    "IoError", "send_packet"))
                              /\ UNCHANGED next_request_id
            ELSE /\ channel' = ch
                 /\ Return("idle", res)
                 /\ UNCHANGED <<next_request_id, handles>>
    /\ UNCHANGED <<working_dir, directory_cache, current_listing, ncalls>>

list_directory_recv_readdir ==
    /\ pc = "ls_recv_readdir"
    /\ Budget
    /\ \E r \in {x \in Received : x.type = "Name" => batches(channel) < MaxBatches} :
         LET ch == receive_packet(channel, r)
             res == list_readdir_response(frame.target_path, r)
             next_packet == IF res.kind = "Ok"
                            THEN ReadDir(next_request_id, frame.handle)
                            ELSE Close(next_request_id, frame.handle)
         IN IF res.kind \in {"Ok", "Break"}
            THEN \E outcome \in SendOutcomes :
                   /\ channel' = send_packet(ch, next_packet, outcome)
                   /\ IF outcome = "ok"
                      THEN /\ next_request_id' = next_request_id + 1
                           /\ pc' = IF res.kind = "Ok" THEN "ls_recv_readdir"
                                    ELSE "ls_recv_close"
                           /\ frame' = IF res.kind = "Ok"
                                       THEN [frame EXCEPT !.files = extend(@, res.value)]
                                       ELSE frame
                           /\ UNCHANGED result
                      ELSE /\ Return("idle", Err("ls", frame.target_path,
                                                 "IoError", "send_packet"))
                           /\ UNCHANGED next_request_id
            ELSE /\ channel' = ch
                 /\ Return("idle", res)
                 /\ UNCHANGED next_request_id
    /\ UNCHANGED <<client_vars, ncalls>>

list_directory_recv_close ==
    /\ pc = "ls_recv_close"
    /\ \E r \in Received :
         LET res == list_close_response(frame.target_path, r) IN
         /\ channel' = receive_packet(channel, r)
         /\ IF res.kind = "Ok"
            THEN /\ current_listing' = frame.files
                 /\ directory_cache' =
                      map_insert(directory_cache, PathKey(frame.target_path), frame.files)
            ELSE UNCHANGED <<current_listing, directory_cache>>
         /\ Return("idle", res)
    /\ UNCHANGED <<next_request_id, working_dir, handles, ncalls>>

\* ------------------------------------------- SftpClient::change_directory
\* the path change_directory puts in its RealPath request
cd_path_str(path) == IF path = None THEN Root ELSE path

\* the match on the response to RealPath
cd_realpath_response(target, r) ==
    CASE r.type = "Name" ->
           IF Len(r.files) = 1 THEN Ok("cd", target, r.files[1].name)
           ELSE Err("cd", target, "UnexpectedResponse",
                    "Expected exactly one path from RealPath")
      [] r.type = "Status" -> ServerError("cd", target, r)
      [] r.type = "RecvFail" -> Err("cd", target, "ClientError", "from_session")
      [] OTHER -> Err("cd", target, "UnexpectedPacket", "RealPath response")

\* SftpClient::stat: the match on the response to Stat
client_stat_response(target, r) ==
    CASE r.type = "Attrs" -> Ok("cd", target, <<r.attrs>>)
      [] r.type = "Status" -> ServerError("cd", target, r)
      [] r.type = "RecvFail" -> Err("cd", target, "ClientError", "from_session")
      [] OTHER -> Err("cd", target, "UnexpectedPacket", "Stat response")

\* a change_directory that takes any path stat has attributes for
cd_check_directory_any(resolved_path, attrs) == Ok("cd", resolved_path, <<TRUE>>)

\* what change_directory returns once stat has returned attrs
cd_check_directory(resolved_path, attrs) ==
    IF ~attrs.is_directory
    THEN Res("cd", resolved_path, "NotADirectory", 0, 0, "", resolved_path)
    ELSE Ok("cd", resolved_path, <<TRUE>>)

change_directory(path) ==
    /\ pc = "idle"
    /\ ncalls < MaxCalls
    /\ ncalls' = ncalls + 1
    /\ LET path_str == cd_path_str(path) IN
       IF ~to_str(path_str)
       THEN /\ channel' = begin_call(channel)
            /\ Return("idle", Err("cd", path_str, "ClientError",
                                  "Invalid UTF-8 in path"))
            /\ UNCHANGED next_request_id
       ELSE /\ Budget
            /\ \E outcome \in SendOutcomes :
                 LET realpath_packet == RealPath(next_request_id, path_str) IN
                 /\ channel' = send_packet(begin_call(channel), realpath_packet, outcome)
                 /\ IF outcome = "ok"
                    THEN /\ next_request_id' = next_request_id + 1
                         /\ pc' = "cd_recv_realpath"
                         /\ frame' = CallFrame("cd", path_str, path_str)
                         /\ result' = NoResult
                    ELSE /\ Return("idle", Err("cd", path_str, "IoError", "send_packet"))
                         /\ UNCHANGED next_request_id
    /\ UNCHANGED client_vars

change_directory_recv_realpath ==
    /\ pc = "cd_recv_realpath"
    /\ Budget
    /\ \E r \in Received :
         LET ch == receive_packet(channel, r)
             res == cd_realpath_response(frame.path_str, r)
             stat_packet == Stat(next_request_id, res.value)
         IN IF res.kind = "Ok"
            THEN \E outcome \in SendOutcomes :
                   /\ channel' = send_packet(ch, stat_packet, outcome)
                   /\ IF outcome = "ok"
                      THEN /\ next_request_id' = next_request_id + 1
                           /\ pc' = "cd_recv_stat"
                           /\ frame' = [frame EXCEPT !.target_path = res.value]
                           /\ UNCHANGED result
                      ELSE /\ Return("idle", Err("cd", res.value, "IoError", "send_packet"))
                           /\ UNCHANGED next_request_id
            ELSE /\ channel' = ch
                 /\ Return("idle", res)
                 /\ UNCHANGED next_request_id
    /\ UNCHANGED <<client_vars, ncalls>>

\* a clear that keeps the listing
clear_nothing(listing) == listing

\* Vec::clear on current_listing
clear(listing) == <<>>

\* an assignment that is reached whatever the checks before it returned
reaches_assignment_always(res) == TRUE

\* the assignments to working_dir and current_listing come after the ? on
\* stat and after the return of NotADirectory
reaches_assignment(res) == res.kind = "Ok"

change_directory_recv_stat ==
    /\ pc = "cd_recv_stat"
    /\ \E r \in Received :
         LET stat == client_stat_response(frame.target_path, r)
             res == IF stat.kind = "Ok"
                    THEN cd_check_directory(frame.target_path, stat.value[1])
                    ELSE stat
         IN /\ channel' = receive_packet(channel, r)
            /\ IF reaches_assignment(res)
               THEN /\ working_dir' = frame.target_path
                    /\ current_listing' = clear(current_listing)
               ELSE UNCHANGED <<working_dir, current_listing>>
            /\ Return("idle", res)
    /\ UNCHANGED <<next_request_id, directory_cache, handles, ncalls>>

\* -------------------------------------------- SftpClient::get_file_handle
OpenPaths == {PathA, BadUtf8}

\* a lookup in the handle map that never finds a handle
handle_lookup_never(map, path_str) == FALSE

\* self.handles.get(path_str) is Some
handle_lookup(map, path_str) == path_str \in DOMAIN map

\* the match on the response to Open
get_file_handle_response(path, r) ==
    CASE r.type = "Handle" -> Ok("get_file_handle", path, r.handle)
      [] r.type = "Status" -> ServerError("get_file_handle", path, r)
      [] r.type = "RecvFail" ->
           Err("get_file_handle", path, "ClientError", "from_session")
      [] OTHER -> Err("get_file_handle", path, "UnexpectedPacket", "Stat response")

get_file_handle(path) ==
    /\ pc = "idle"
    /\ ncalls < MaxCalls
    /\ ncalls' = ncalls + 1
    /\ IF ~to_str(path)
       THEN /\ channel' = begin_call(channel)
            /\ Return("idle", Err("get_file_handle", path, "ClientError",
                                  "Invalid UTF-8 in path"))
            /\ UNCHANGED next_request_id
       ELSE IF handle_lookup(handles, path)
       THEN /\ channel' = begin_call(channel)
            /\ Return("idle", Ok("get_file_handle", path, handles[path]))
            /\ UNCHANGED next_request_id
       ELSE /\ Budget
            /\ \E outcome \in SendOutcomes :
                 LET open_packet == Open(next_request_id, path, SSH_FXF_READ) IN
                 /\ channel' = send_packet(begin_call(channel), open_packet, outcome)
                 /\ IF outcome = "ok"
                    THEN /\ next_request_id' = next_request_id + 1
                         /\ pc' = "get_file_handle_recv"
                         /\ frame' = CallFrame("get_file_handle", path, path)
                         /\ result' = NoResult
                    ELSE /\ Return("idle", Err("get_file_handle", path,
                                               "IoError", "send_packet"))
                         /\ UNCHANGED next_request_id
    /\ UNCHANGED client_vars

get_file_handle_recv ==
    /\ pc = "get_file_handle_recv"
    /\ \E r \in Received :
         LET res == get_file_handle_response(frame.path_str, r) IN
         /\ channel' = receive_packet(channel, r)
         /\ handles' = IF res.kind = "Ok"
                       THEN map_insert(handles, frame.path_str, res.value)
                       ELSE handles
         /\ Return("idle", res)
    /\ UNCHANGED <<next_request_id, working_dir, directory_cache,
                   current_listing, ncalls>>

\* ---------------------------------------------- SftpClient::close_handle
ClosePaths == {Root, PathA}

close_handle(path) ==
    /\ pc = "idle"
    /\ ncalls < MaxCalls
    /\ ncalls' = ncalls + 1
    /\ IF path \in DOMAIN handles
       THEN /\ Budget
            /\ handles' = map_remove(handles, path)
            /\ \E outcome \in SendOutcomes :
                 LET close_packet == Close(next_request_id, handles[path]) IN
                 /\ channel' = send_packet(begin_call(channel), close_packet, outcome)
                 /\ IF outcome = "ok"
                    THEN /\ next_request_id' = next_request_id + 1
                         /\ pc' = "close_handle_recv"
                         /\ frame' = [CallFrame("close_handle", path, path)
                                         EXCEPT !.handle = handles[path]]
                         /\ result' = NoResult
                    ELSE /\ Return("idle", Err("close_handle", path, "IoError", "send_packet"))
                         /\ UNCHANGED next_request_id
       ELSE /\ channel' = begin_call(channel)
            /\ Return("idle", Ok("close_handle", path, <<>>))
            /\ UNCHANGED <<next_request_id, handles>>
    /\ UNCHANGED <<working_dir, directory_cache, current_listing>>

\* let _ = ServerPacket::from_session(..); Ok(())
close_handle_response(path, r) == Ok("close_handle", path, <<>>)

close_handle_recv ==
    /\ pc = "close_handle_recv"
    /\ \E r \in Received :
         /\ channel' = receive_packet(channel, r)
         /\ Return("idle", close_handle_response(frame.path_str, r))
    /\ UNCHANGED <<next_request_id, client_vars, ncalls>>

\* -------------------------- SftpClient::execute_command for Pwd, Help, Bye
\* Bye returns Ok(false): the caller stops sending commands
LocalCommands == {"Pwd", "Help", "Bye"}

\* a dispatch that tells the caller to keep running after every command
keep_running_always(cmd) == TRUE

\* the bool of execute_command's Ok: false for Bye only
keep_running(cmd) == cmd # "Bye"

execute_command_local(cmd) ==
    /\ pc = "idle"
    /\ ncalls < MaxCalls
    /\ ncalls' = ncalls + 1
    /\ channel' = begin_call(channel)
    /\ Return(IF keep_running(cmd) THEN "idle" ELSE "closed",
              Ok(cmd, <<>>, <<keep_running(cmd)>>))
    /\ UNCHANGED <<next_request_id, client_vars>>

\* ------------------------------ SftpClient::execute_command for Get and Put
\* get_file and put_file are todo!(): the call panics before anything is
\* read or written and execute_command never returns
TransferCommands == {"Get", "Put"}

execute_command_transfer(cmd) ==
    /\ pc = "idle"
    /\ ncalls < MaxCalls
    /\ ncalls' = ncalls + 1
    /\ channel' = begin_call(channel)
    /\ pc' = "panicked"
    /\ frame' = [NoFrame EXCEPT !.op = cmd]
    /\ result' = NoResult
    /\ UNCHANGED <<next_request_id, client_vars>>

\* ------------------------------------------------------- SftpSession::new
SftpSession_new ==
    /\ pc = "start"
    /\ \E ok \in BOOLEAN :
         /\ channel' = write_init(channel, Init_packet(SFTP_SUPPORTED_VERSION), ok)
         /\ IF ok
            THEN /\ pc' = "session_recv_version"
                 /\ frame' = [NoFrame EXCEPT !.op = "session_new"]
                 /\ UNCHANGED result
            ELSE Return("failed", Err("session_new", <<>>, "ClientError", "write_all"))
    /\ UNCHANGED <<next_request_id, client_vars, ncalls>>

session_new_response(r) ==
    CASE r.type = "Version" -> Ok("session_new", <<>>, <<>>)
      [] r.type = "RecvFail" -> Err("session_new", <<>>, "ClientError", "from_session")
      [] OTHER -> Err("session_new", <<>>, "ClientError",
                      "Error when creating SFTP session")

SftpSession_new_recv_version ==
    /\ pc = "session_recv_version"
    /\ \E r \in Received :
         LET res == session_new_response(r) IN
         /\ channel' = receive_packet(channel, r)
         /\ Return(IF res.kind = "Ok" THEN "p_idle" ELSE "failed", res)
    /\ UNCHANGED <<next_request_id, client_vars, ncalls>>

\* ------------------------------------------------------------ SftpProtocol
ProtocolPaths == {PathA}

\* a realpath that takes the first of any number of names
realpath_response_first_name(path, r) ==
    CASE r.type = "Name" /\ Len(r.files) >= 1 -> Ok("realpath", path, r.files[1].name)
      [] r.type = "Status" -> ServerError("realpath", path, r)
      [] r.type = "RecvFail" -> Err("realpath", path, "ClientError", "from_session")
      [] OTHER -> Err("realpath", path, "UnexpectedResponse", "RealPath response")

\* the match of SftpProtocol::realpath
realpath_response(path, r) ==
    CASE r.type = "Name" /\ Len(r.files) = 1 -> Ok("realpath", path, r.files[1].name)
      [] r.type = "Status" -> ServerError("realpath", path, r)
      [] r.type = "RecvFail" -> Err("realpath", path, "ClientError", "from_session")
      [] OTHER -> Err("realpath", path, "UnexpectedResponse", "RealPath response")

\* the match of SftpProtocol::open_dir
open_dir_response(path, r) ==
    CASE r.type = "Handle" -> Ok("open_dir", path, r.handle)
      [] r.type = "Status" -> ServerError("open_dir", path, r)
      [] r.type = "RecvFail" -> Err("open_dir", path, "ClientError", "from_session")
      [] OTHER -> Err("open_dir", path, "UnexpectedPacket", "OpenDir response")

\* a read_dir that takes every Status below InvalidHandle for the end
read_dir_response_ok_is_end(handle, r) ==
    CASE r.type = "Name" -> Ok("read_dir", handle, r.files)
      [] r.type = "Status" ->
           IF r.status_code <= SftpStatus_Eof THEN Ok("read_dir", handle, <<>>)
           ELSE ServerError("read_dir", handle, r)
      [] r.type = "RecvFail" -> Err("read_dir", handle, "ClientError", "from_session")
      [] OTHER -> Err("read_dir", handle, "UnexpectedPacket", "ReadDir response")

\* the match of SftpProtocol::read_dir
read_dir_response(handle, r) ==
    CASE r.type = "Name" -> Ok("read_dir", handle, r.files)
      [] r.type = "Status" ->
           IF r.status_code = SftpStatus_Eof THEN Ok("read_dir", handle, <<>>)
           ELSE ServerError("read_dir", handle, r)
      [] r.type = "RecvFail" -> Err("read_dir", handle, "ClientError", "from_session")
      [] OTHER -> Err("read_dir", handle, "UnexpectedPacket", "ReadDir response")

\* the match of SftpProtocol::close
close_response(handle, r) ==
    CASE r.type = "Status" /\ r.status_code = SftpStatus_Ok -> Ok("close", handle, <<>>)
      [] r.type = "Status" -> ServerError("close", handle, r)
      [] r.type = "RecvFail" -> Err("close", handle, "ClientError", "from_session")
      [] OTHER -> Ok("close", handle, <<>>)

\* a stat that takes Status OK for success
stat_response_ok_status(path, r) ==
    CASE r.type = "Attrs" -> Ok("stat", path, <<r.attrs>>)
      [] r.type = "Status" /\ r.status_code = SftpStatus_Ok ->
           Ok("stat", path, <<FileAttributes_default>>)
      [] r.type = "Status" -> ServerError("stat", path, r)
      [] r.type = "RecvFail" -> Err("stat", path, "ClientError", "from_session")
      [] OTHER -> Err("stat", path, "UnexpectedPacket", "Unexpected Stat response")

\* the match of SftpProtocol::stat
stat_response(path, r) ==
    CASE r.type = "Attrs" -> Ok("stat", path, <<r.attrs>>)
      [] r.type = "Status" -> ServerError("stat", path, r)
      [] r.type = "RecvFail" -> Err("stat", path, "ClientError", "from_session")
      [] OTHER -> Err("stat", path, "UnexpectedPacket", "Unexpected Stat response")

\* the match of SftpProtocol::open
open_response(path, r) ==
    CASE r.type = "Handle" -> Ok("open", path, r.handle)
      [] r.type = "Status" -> ServerError("open", path, r)
      [] r.type = "RecvFail" -> Err("open", path, "ClientError", "from_session")
      [] OTHER -> Err("open", path, "UnexpectedPacket", "OpenDir response")

\* TransportLayer::next_request_id, then send_packet(packet)?
protocol_send(op, arg, packet) ==
    /\ pc = "p_idle"
    /\ ncalls < MaxCalls
    /\ Budget
    /\ ncalls' = ncalls + 1
    /\ next_request_id' = next_request_id + 1
    /\ \E outcome \in SendOutcomes :
         /\ channel' = send_packet(begin_call(channel), packet, outcome)
         /\ IF outcome = "ok"
            THEN /\ pc' = "p_recv"
                 /\ frame' = [NoFrame EXCEPT !.op = op, !.target_path = arg]
                 /\ result' = NoResult
            ELSE Return("p_idle", Err(op, arg, "IoError", "send_packet"))
    /\ UNCHANGED client_vars

\* receive_packet()? and the match on it
protocol_receive(op, r, res) ==
    /\ pc = "p_recv"
    /\ frame.op = op
    /\ channel' = receive_packet(channel, r)
    /\ Return("p_idle", res)
    /\ UNCHANGED <<next_request_id, client_vars, ncalls>>

realpath(path) == protocol_send("realpath", path, RealPath(next_request_id, path))
realpath_recv ==
    \E r \in Received :
      protocol_receive("realpath", r, realpath_response(frame.target_path, r))

open_dir(path) == protocol_send("open_dir", path, OpenDir(next_request_id, path))
open_dir_recv ==
    \E r \in Received :
      protocol_receive("open_dir", r, open_dir_response(frame.target_path, r))

read_dir(handle) == protocol_send("read_dir", handle, ReadDir(next_request_id, handle))
read_dir_recv ==
    \E r \in Received :
      protocol_receive("read_dir", r, read_dir_response(frame.target_path, r))

close(handle) == protocol_send("close", handle, Close(next_request_id, handle))
close_recv ==
    \E r \in Received :
      protocol_receive("close", r, close_response(frame.target_path, r))

stat(path) == protocol_send("stat", path, Stat(next_request_id, path))
stat_recv ==
    \E r \in Received :
      protocol_receive("stat", r, stat_response(frame.target_path, r))

open(path, pflags) ==
    protocol_send("open", path, Open(next_request_id, path, pflags))
open_recv ==
    \E r \in Received :
      protocol_receive("open", r, open_response(frame.target_path, r))

\* a match that also leaves the loop on a chunk of exactly chunk_size bytes
read_response_stop_on_full(handle, r) ==
    CASE r.type = "Data" ->
           IF data_len(r.data) <= chunk_size
           THEN Res("read", handle, "Break", 0, 0, "", r.data)
           ELSE Ok("read", handle, r.data)
      [] r.type = "Status" ->
           IF r.status_code = SftpStatus_Eof
           THEN Res("read", handle, "Break", 0, 0, "", <<>>)
           ELSE ServerError("read", handle, r)
      [] r.type = "RecvFail" -> Err("read", handle, "ClientError", "from_session")
      [] OTHER -> Err("read", handle, "UnexpectedPacket", "Read response")

\* the match of SftpProtocol::read: "Ok" goes round the loop again, "Break"
\* leaves it
read_response(handle, r) ==
    CASE r.type = "Data" ->
           IF data_len(r.data) < chunk_size
           THEN Res("read", handle, "Break", 0, 0, "", r.data)
           ELSE Ok("read", handle, r.data)
      [] r.type = "Status" ->
           IF r.status_code = SftpStatus_Eof
           THEN Res("read", handle, "Break", 0, 0, "", <<>>)
           ELSE ServerError("read", handle, r)
      [] r.type = "RecvFail" -> Err("read", handle, "ClientError", "from_session")
      [] OTHER -> Err("read", handle, "UnexpectedPacket", "Read response")

\* an offset that advances by the length asked for
next_offset_by_chunk(offset, data) == offset + chunk_size

\* offset += data_len
next_offset(offset, data) == offset + data_len(data)

read(handle) ==
    protocol_send("read", handle, Read(next_request_id, handle, 0, chunk_size))

read_recv ==
    /\ pc = "p_recv"
    /\ frame.op = "read"
    /\ Budget
    /\ \E r \in Received \cup DataResponses :
         LET ch == receive_packet(channel, r)
             res == read_response(frame.target_path, r)
             result_data == frame.data \o res.value
             offset == next_offset(frame.offset, res.value)
             packet == Read(next_request_id, frame.target_path, offset, chunk_size)
         IN IF res.kind = "Ok"
            THEN /\ next_request_id' = next_request_id + 1
                 /\ \E outcome \in SendOutcomes :
                      /\ channel' = send_packet(ch, packet, outcome)
                      /\ IF outcome = "ok"
                         THEN /\ pc' = "p_recv"
                              /\ frame' = [frame EXCEPT !.data = result_data,
                                                        !.offset = offset]
                              /\ UNCHANGED result
                         ELSE Return("p_idle", Err("read", frame.target_path,
                                                   "IoError", "send_packet"))
            ELSE /\ channel' = ch
                 /\ Return("p_idle", IF res.kind = "Break"
                                     THEN Ok("read", frame.target_path, result_data)
                                     ELSE res)
                 /\ UNCHANGED next_request_id
    /\ UNCHANGED <<client_vars, ncalls>>

\* ------------------------------------------------------------ specification
Next ==
    \/ SftpClient_new
    \/ SftpClient_new_recv_version
    \/ SftpClient_new_recv_realpath
    \/ \E path \in ArgPaths : list_directory(path)
    \/ list_directory_recv_opendir
    \/ list_directory_recv_readdir
    \/ list_directory_recv_close
    \/ \E path \in ArgPaths : change_directory(path)
    \/ change_directory_recv_realpath
    \/ change_directory_recv_stat
    \/ \E path \in OpenPaths : get_file_handle(path)
    \/ get_file_handle_recv
    \/ \E path \in ClosePaths : close_handle(path)
    \/ close_handle_recv
    \/ \E cmd \in LocalCommands : execute_command_local(cmd)
    \/ \E cmd \in TransferCommands : execute_command_transfer(cmd)
    \/ SftpSession_new
    \/ SftpSession_new_recv_version
    \/ \E path \in ProtocolPaths : realpath(path)
    \/ realpath_recv
    \/ \E path \in ProtocolPaths : open_dir(path)
    \/ open_dir_recv
    \/ \E handle \in Handles : read_dir(handle)
    \/ read_dir_recv
    \/ \E handle \in Handles : close(handle)
    \/ close_recv
    \/ \E path \in ProtocolPaths : stat(path)
    \/ stat_recv
    \/ \E path \in ProtocolPaths : open(path, SSH_FXF_READ)
    \/ open_recv
    \/ \E handle \in Handles : read(handle)
    \/ read_recv

Spec == Init /\ [][Next]_vars

\* construction and list_directory alone, with a server that answers: a
\* blocking read returns, with a response or with a failure of the transport
LsNext ==
    \/ SftpClient_new
    \/ SftpClient_new_recv_version
    \/ SftpClient_new_recv_realpath
    \/ \E path \in ArgPaths : list_directory(path)
    \/ list_directory_recv_opendir
    \/ list_directory_recv_readdir
    \/ list_directory_recv_close

LsSpec ==
    /\ Init /\ [][LsNext]_vars
    /\ WF_vars(list_directory_recv_opendir)
    /\ WF_vars(list_directory_recv_readdir)
    /\ WF_vars(list_directory_recv_close)

\* ------------------------------------------- resolve_path on its own
\* strings of at most n atoms in which no two atoms other than the separator
\* are adjacent
RECURSIVE PathStrings(_)
PathStrings(n) ==
    IF n = 0 THEN {<<>>}
    ELSE LET shorter == PathStrings(n - 1) IN
         shorter \cup
         {Append(p, c) : p \in {q \in shorter : Len(q) = n - 1}, c \in {Sep}}
         \cup
         {Append(p, c) : p \in {q \in shorter : Len(q) = n - 1
                                               /\ (Len(q) = 0 \/ Last(q) = Sep)},
                         c \in {"a", "b"}}

\* the working directories and the paths resolve_path is applied to
WorkingDirs == PathStrings(MaxPathLen)
PathInputs ==
    {Dot, DotDot, Root, <<"a">>, PathA, <<"a", Sep, "b">>, <<"..", Sep, "a">>,
     <<".", Sep, "a">>, <<Sep, "a", Sep>>}

\* a session whose working directory is any of WorkingDirs
PathInit ==
    /\ pc = "path"
    /\ channel = [sent |-> <<>>, recvd |-> <<>>, ids |-> <<>>, in_flight |-> 0,
                  lost |-> FALSE, flushed |-> TRUE]
    /\ next_request_id = 1
    /\ working_dir \in WorkingDirs
    /\ directory_cache = EmptyMap
    /\ current_listing = <<>>
    /\ handles = EmptyMap
    /\ frame = NoFrame
    /\ result = NoResult
    /\ ncalls = 0

\* self.resolve_path(path)
resolve_path_call(path) ==
    /\ pc = "path"
    /\ result' = Ok("resolve_path", path, resolve_path(working_dir, path))
    /\ UNCHANGED <<pc, channel, next_request_id, client_vars, frame, ncalls>>

PathNext == \E path \in PathInputs : resolve_path_call(path)

PathSpec == PathInit /\ [][PathNext]_vars

\* ------------------------------------------------- the codec on its own
\* the requests to_bytes is applied to; "/home" is 47 104 111 109 101
CodecIds == {0, 1, 258}
CodecPaths == {<<>>, <<47>>, <<47, 104, 111, 109, 101>>}
CodecHandles == {<<>>, <<1, 2, 3>>}
ClientPackets ==
    {Init_packet(v) : v \in {0, SFTP_SUPPORTED_VERSION}}
    \cup {OpenDir(id, path) : id \in CodecIds, path \in CodecPaths}
    \cup {RealPath(id, path) : id \in CodecIds, path \in CodecPaths}
    \cup {Stat(id, path) : id \in CodecIds, path \in CodecPaths}
    \cup {ReadDir(id, handle) : id \in CodecIds, handle \in CodecHandles}
    \cup {Close(id, handle) : id \in CodecIds, handle \in CodecHandles}
    \cup {Open(id, path, SSH_FXF_READ) : id \in CodecIds, path \in CodecPaths}

\* a length-prefixed string and a u64 as a server writes them
wire_string(bytes) == to_be_bytes(Len(bytes)) \o bytes
wire_u64(n) == <<0, 0, 0, 0>> \o to_be_bytes(n)

\* attribute flags with the attribute bytes that go with them: none, the
\* permissions of each file type, size and permissions, all four fields, and
\* extended pairs: none, one ("a", "bc") after permissions, and two
FilePermissions == {16877, 33188, 41471, 8612, 24996, 4516, 49572, 420}
WireAttrs ==
    {to_be_bytes(0)}
    \cup {to_be_bytes(SSH_FILEXFER_ATTR_PERMISSIONS) \o to_be_bytes(perms) :
            perms \in FilePermissions}
    \cup {to_be_bytes(SSH_FILEXFER_ATTR_SIZE + SSH_FILEXFER_ATTR_PERMISSIONS)
            \o wire_u64(10) \o to_be_bytes(33188)}
    \cup {to_be_bytes(SSH_FILEXFER_ATTR_SIZE + SSH_FILEXFER_ATTR_UIDGID
                      + SSH_FILEXFER_ATTR_PERMISSIONS + SSH_FILEXFER_ATTR_ACMODTIME)
            \o wire_u64(10) \o to_be_bytes(1000) \o to_be_bytes(1000)
            \o to_be_bytes(16877) \o to_be_bytes(7) \o to_be_bytes(9)}
    \cup {to_be_bytes(SSH_FILEXFER_ATTR_EXTENDED) \o to_be_bytes(0)}
    \cup {to_be_bytes(SSH_FILEXFER_ATTR_EXTENDED + SSH_FILEXFER_ATTR_PERMISSIONS)
            \o to_be_bytes(33188) \o to_be_bytes(1)
            \o wire_string(<<97>>) \o wire_string(<<98, 99>>)}
    \cup {to_be_bytes(SSH_FILEXFER_ATTR_EXTENDED) \o to_be_bytes(2)
            \o wire_string(<<97>>) \o wire_string(<<>>)
            \o wire_string(<<>>) \o wire_string(<<98, 99>>)}

\* what follows the tag in the frames the decoder is applied to, by tag;
\* among them a message and a first name that are not UTF-8, and a tag
\* from_reader has no arm for
ServerBodies ==
    {<<SSH_FXP_VERSION, to_be_bytes(SFTP_SUPPORTED_VERSION)>>}
    \cup {<<SSH_FXP_HANDLE, to_be_bytes(1) \o wire_string(h)>> : h \in CodecHandles}
    \cup {<<SSH_FXP_STATUS,
            to_be_bytes(1) \o to_be_bytes(code) \o wire_string(msg) \o wire_string(<<>>)>> :
            code \in {SftpStatus_Ok, SftpStatus_InvalidHandle},
            msg \in {<<>>, <<79, 75>>, <<255>>}}
    \cup {<<SSH_FXP_ATTRS, to_be_bytes(1) \o a>> : a \in WireAttrs}
    \cup {<<SSH_FXP_NAME, to_be_bytes(1) \o to_be_bytes(0)>>}
    \cup {<<SSH_FXP_NAME,
            to_be_bytes(1) \o to_be_bytes(1) \o wire_string(<<97>>)
            \o wire_string(<<100, 32, 97>>) \o a>> : a \in WireAttrs}
    \cup {<<SSH_FXP_NAME,
            to_be_bytes(1) \o to_be_bytes(2) \o wire_string(<<255>>)
            \o wire_string(<<97>>) \o to_be_bytes(0) \o wire_string(<<98>>)
            \o wire_string(<<98>>) \o to_be_bytes(0)>>}
    \cup {<<SSH_FXP_DATA, to_be_bytes(1) \o wire_string(<<1>>)>>}

\* a frame whose length field is off by slack, followed by the first bytes
\* of whatever the server writes next, or cut short of its last byte
ServerFrame(slack, body) ==
    to_be_bytes(1 + Len(body[2]) + slack) \o <<body[1]>> \o body[2]
Slacks == (0 - MaxFrameSlack)..MaxFrameSlack
ServerStreams ==
    {ServerFrame(slack, body) \o rest :
       slack \in Slacks, body \in ServerBodies, rest \in {<<>>, <<0, 0>>}}
    \cup {Front(ServerFrame(0, body)) : body \in ServerBodies}
    \cup {<<0, 0, 0, 0, SSH_FXP_VERSION>>}

\* no session: one codec call is made on one input and returns
CodecInit ==
    /\ pc = "codec"
    /\ channel = [sent |-> <<>>, recvd |-> <<>>, ids |-> <<>>, in_flight |-> 0,
                  lost |-> FALSE, flushed |-> TRUE]
    /\ next_request_id = 0
    /\ working_dir = <<>>
    /\ directory_cache = EmptyMap
    /\ current_listing = <<>>
    /\ handles = EmptyMap
    /\ frame = NoFrame
    /\ result = NoResult
    /\ ncalls = 0

\* what a decoding call leaves behind: how it ended, the packet if it
\* returned one, the bytes the reader consumed and remaining_bytes as the
\* call left it (negative for a wrapped value)
Decoded(op, data, s) ==
    Res(op, data, s.status, 0, 0, "",
        [checked |-> s.checked, position |-> s.position,
         remaining |-> s.remaining,
         packet |-> IF s.status = "Ok" THEN <<s.value>> ELSE <<>>])

\* packet.to_bytes()
to_bytes_call(pkt) ==
    /\ pc = "codec"
    /\ result' = Ok("to_bytes", pkt, to_bytes(pkt))
    /\ pc' = "returned"
    /\ UNCHANGED <<channel, next_request_id, client_vars, frame, ncalls>>

\* ServerPacket::from_bytes(data)
from_bytes_call(checked, data) ==
    /\ pc = "codec"
    /\ result' = Decoded("from_bytes", data, from_bytes(checked, data))
    /\ pc' = "returned"
    /\ UNCHANGED <<channel, next_request_id, client_vars, frame, ncalls>>

\* ServerPacket::from_session(session) with data the bytes the channel holds
from_session_call(checked, data) ==
    /\ pc = "codec"
    /\ result' = Decoded("from_session", data, from_session(checked, data))
    /\ pc' = "returned"
    /\ UNCHANGED <<channel, next_request_id, client_vars, frame, ncalls>>

\* the attributes FileAttributes::to_bytes is applied to: each of size,
\* permissions and modify_time present or absent
EncodableAttrs ==
    {[FileAttributes_default EXCEPT
        !.size = size, !.permissions = perms, !.modify_time = mtime] :
       size \in {NoValue, Some(10)},
       perms \in {NoValue, Some(16877), Some(33188)},
       mtime \in {NoValue, Some(9)}}

\* FileAttributes::to_bytes: the flags, then the fields that are present
attrs_to_bytes(a) ==
    to_be_bytes((IF a.size # NoValue THEN SSH_FILEXFER_ATTR_SIZE ELSE 0)
                + (IF a.permissions # NoValue
                   THEN SSH_FILEXFER_ATTR_PERMISSIONS ELSE 0)
                + (IF a.modify_time # NoValue
                   THEN SSH_FILEXFER_ATTR_ACMODTIME ELSE 0))
    \o (IF a.size # NoValue THEN wire_u64(a.size[1]) ELSE <<>>)
    \o (IF a.permissions # NoValue THEN to_be_bytes(a.permissions[1]) ELSE <<>>)
    \o (IF a.modify_time # NoValue THEN to_be_bytes(a.modify_time[1]) ELSE <<>>)

\* what a parse_file_attributes call leaves behind: how it ended, the bytes
\* consumed and, if it returned, the len and the attributes it reported
Parsed(op, target, data, s) ==
    Res(op, target, s.status, 0, 0, "",
        [reader |-> s.reader, data |-> data, position |-> s.position,
         len |-> IF s.status = "Ok" THEN s.value[1] ELSE 0,
         attrs |-> IF s.status = "Ok" THEN <<s.value[2]>> ELSE <<>>])

\* the flags word is read, then reader.parse_file_attributes(&flags)
parse_attrs(reader, data) ==
    Let([f \in {read_u32(Reader(reader, TRUE, data))} |->
      IF f.status # "Ok" THEN f ELSE file_attributes(f, f.value)])

\* reader.parse_file_attributes on attribute bytes a server wrote, alone or
\* followed by the bytes of what it wrote next
parse_file_attributes_call(reader, data) ==
    /\ pc = "codec"
    /\ result' = Parsed("parse_file_attributes", data, data,
                        parse_attrs(reader, data))
    /\ pc' = "returned"
    /\ UNCHANGED <<channel, next_request_id, client_vars, frame, ncalls>>

\* a.to_bytes() handed to reader.parse_file_attributes
attrs_round_trip_call(reader, a) ==
    /\ pc = "codec"
    /\ result' = Parsed("attrs_round_trip", a, attrs_to_bytes(a),
                        parse_attrs(reader, attrs_to_bytes(a)))
    /\ pc' = "returned"
    /\ UNCHANGED <<channel, next_request_id, client_vars, frame, ncalls>>

Readers == {"SftpSession", "BufferReader"}

CodecNext ==
    \/ \E reader \in Readers, a \in EncodableAttrs : attrs_round_trip_call(reader, a)
    \/ \E reader \in Readers, a \in WireAttrs, rest \in {<<>>, <<0, 0>>} :
         parse_file_attributes_call(reader, a \o rest)
    \/ \E pkt \in ClientPackets : to_bytes_call(pkt)
    \/ \E checked \in BOOLEAN, data \in ServerStreams : from_bytes_call(checked, data)
    \/ \E checked \in BOOLEAN, data \in ServerStreams : from_session_call(checked, data)

CodecSpec == CodecInit /\ [][CodecNext]_vars


\* ------------------------------------------------------------- properties
\* the states in which no operation is waiting for a response
IdleStates == {"start", "idle", "p_idle", "failed", "closed", "panicked"}

\* the requests of one uncached listing: OpenDir, one or more ReadDir, Close
ListingWire(sent) ==
    /\ Len(sent) >= 3
    /\ sent[1].type = "OpenDir"
    /\ Last(sent).type = "Close"
    /\ \A i \in 2..(Len(sent) - 1) : sent[i].type = "ReadDir"

\* the step is a call of list_directory for the path the last operation listed
SameListingAgain ==
    /\ pc = "idle" /\ result.op = "ls" /\ result.kind = "Ok"
    /\ ncalls' = ncalls + 1
    /\ \/ /\ pc' = "idle" /\ result'.op = "ls"
          /\ PathKey(result'.target) = PathKey(result.target)
       \/ /\ pc' # "idle" /\ frame'.op = "ls"
          /\ PathKey(frame'.target_path) = PathKey(result.target)

\* C1: when list_directory has succeeded for a path and the next operation is
\* list_directory for the same resolved path, the first put one OpenDir,
\* ReadDir.., Close sequence on the wire (or none, when it was itself served
\* from the cache), and the second returns at once with success: it writes no
\* request, consumes no response, allocates no id, and sets the current
\* listing to the files cached for the path.
C1_SecondListingFromCache ==
    [][SameListingAgain =>
         /\ channel.sent = <<>> \/ ListingWire(channel.sent)
         /\ Len(channel.recvd) = Len(channel.sent)
         /\ pc' = "idle"
         /\ result'.kind = "Ok"
         /\ channel'.sent = <<>> /\ channel'.recvd = <<>>
         /\ channel'.ids = channel.ids
         /\ channel'.in_flight = channel.in_flight
         /\ next_request_id' = next_request_id
         /\ current_listing' = directory_cache[PathKey(result.target)]
         /\ directory_cache' = directory_cache]_vars

\* the second of two listings of "/a" has returned from the cache the two
\* entries the first one read
C1_Witness ==
    /\ pc = "idle" /\ ncalls = 2
    /\ result.op = "ls" /\ result.kind = "Ok" /\ result.target = PathA
    /\ channel.sent = <<>>
    /\ Len(channel.ids) >= 4
    /\ current_listing = <<FileInfo(TestTxt), FileInfo(PathA)>>

\* C2: the ids of the requests written in one session are allocated from 0
\* upwards and each is strictly greater than the id of every request written
\* before it: no id is written twice, whatever the commands and whether or
\* not they failed while sending or receiving.
C2_RequestIdsIncrease ==
    \A i, j \in 1..Len(channel.ids) :
       /\ channel.ids[i] >= 0
       /\ i < j => channel.ids[i] < channel.ids[j]

\* the requests no response was or will be consumed for: those awaiting their
\* response, and one given up by an operation that failed
Unanswered == channel.in_flight + (IF channel.lost THEN 1 ELSE 0)

LastResponse == Last(channel.recvd)

\* C4: when the Stat request of change_directory is answered by attributes
\* whose is_directory is false, change_directory returns NotADirectory and
\* the working directory is the one the call started with.
C4_CdNotADirectory ==
    [][(/\ pc = "cd_recv_stat"
        /\ Len(channel'.recvd) = 2
        /\ channel'.recvd[2].type = "Attrs"
        /\ ~channel'.recvd[2].attrs.is_directory)
       => /\ pc' = "idle"
          /\ result'.op = "cd" /\ result'.kind = "NotADirectory"
          /\ working_dir' = frame.pre.working_dir
          /\ working_dir' = working_dir]_vars

\* change_directory has returned NotADirectory for a path whose attributes
\* are those of a regular file
C4_Witness ==
    /\ pc = "idle" /\ result.op = "cd" /\ result.kind = "NotADirectory"
    /\ Len(channel.recvd) = 2
    /\ LastResponse.type = "Attrs" /\ LastResponse.attrs.is_regular_file
    /\ working_dir # result.target

\* C5: realpath returns the name of a Name response with exactly one entry,
\* fails on a Name response with no entry or more than one, and fails on
\* every Status response, status OK included, with a server error that
\* carries the response's status code, request id and message.  The
\* RealPath exchange of change_directory does the same: it goes on to Stat
\* the one name, and otherwise returns the error without a further request.
C5_RealPathResponses ==
    /\ (pc = "p_idle" /\ result.op = "realpath" /\ Len(channel.recvd) = 1) =>
         LET r == channel.recvd[1] IN
         /\ (r.type = "Name" /\ Len(r.files) = 1) =>
              result.kind = "Ok" /\ result.value = r.files[1].name
         /\ (r.type = "Name" /\ Len(r.files) # 1) =>
              result.kind = "UnexpectedResponse"
         /\ r.type = "Status" =>
              /\ result.kind = "ServerError"
              /\ result.code = r.status_code
              /\ result.request_id = r.request_id
              /\ result.message = r.message
    /\ (frame.op = "cd" \/ (pc = "idle" /\ result.op = "cd")) =>
         /\ Len(channel.recvd) >= 1 =>
              LET r == channel.recvd[1] IN
              /\ (r.type = "Name" /\ Len(r.files) = 1 /\ Len(channel.sent) >= 2) =>
                   channel.sent[2].type = "Stat" /\ channel.sent[2].path = r.files[1].name
              /\ (r.type = "Name" /\ Len(r.files) # 1) =>
                   /\ pc = "idle" /\ result.kind = "UnexpectedResponse"
                   /\ Len(channel.sent) = 1
              /\ r.type = "Status" =>
                   /\ pc = "idle" /\ result.kind = "ServerError"
                   /\ result.code = r.status_code
                   /\ result.message = r.message
                   /\ Len(channel.sent) = 1

\* realpath has failed on a Status response whose code is OK
C5_Witness ==
    /\ pc = "p_idle" /\ result.op = "realpath" /\ Len(channel.recvd) = 1
    /\ LastResponse.type = "Status" /\ LastResponse.status_code = SftpStatus_Ok
    /\ result.kind = "ServerError" /\ result.message = "OK"

\* C6: read_dir answered by a Status response with code EOF returns an
\* empty list and no error; answered by a Status response with any other
\* code, OK included, it returns a server error with that code.  The ReadDir
\* loop of list_directory does the same: EOF ends the loop and Close is the
\* next request, any other Status ends list_directory with a server error.
C6_ReadDirStatus ==
    /\ (pc = "p_idle" /\ result.op = "read_dir" /\ Len(channel.recvd) = 1
        /\ channel.recvd[1].type = "Status") =>
         IF channel.recvd[1].status_code = SftpStatus_Eof
         THEN result.kind = "Ok" /\ result.value = <<>>
         ELSE result.kind = "ServerError" /\ result.code = channel.recvd[1].status_code
    /\ (frame.op = "ls" \/ (pc = "idle" /\ result.op = "ls")) =>
         \A k \in 1..Len(channel.recvd) :
            (channel.sent[k].type = "ReadDir" /\ channel.recvd[k].type = "Status") =>
              IF channel.recvd[k].status_code = SftpStatus_Eof
              THEN Len(channel.sent) > k => channel.sent[k + 1].type = "Close"
              ELSE /\ pc = "idle" /\ Len(channel.sent) = k
                   /\ result.kind = "ServerError"
                   /\ result.code = channel.recvd[k].status_code

\* read_dir has returned the empty list for a Status response with code EOF
C6_Witness ==
    /\ pc = "p_idle" /\ result.op = "read_dir" /\ Len(channel.recvd) = 1
    /\ LastResponse.type = "Status" /\ LastResponse.status_code = SftpStatus_Eof
    /\ result.kind = "Ok" /\ result.value = <<>>

\* what the claim says a close returns for the response r
CloseRule(r, res) ==
    IF r.type = "Status" /\ r.status_code # SftpStatus_Ok
    THEN res.kind = "ServerError"
    ELSE res.kind = "Ok"

\* C7: every close (SftpProtocol::close, the Close of list_directory and
\* close_handle) succeeds on a Status response with code OK, fails on a
\* Status response with any other code, and succeeds on a response that is
\* not a Status.
C7_CloseResponses ==
    /\ (pc = "p_idle" /\ result.op = "close" /\ Len(channel.recvd) = 1) =>
         CloseRule(channel.recvd[1], result)
    /\ (pc = "idle" /\ result.op = "ls" /\ Len(channel.sent) >= 1
        /\ Last(channel.sent).type = "Close"
        /\ Len(channel.recvd) = Len(channel.sent)) =>
         CloseRule(LastResponse, result)
    /\ (pc = "idle" /\ result.op = "close_handle" /\ Len(channel.recvd) = 1) =>
         CloseRule(channel.recvd[1], result)

\* C8: stat, open and open_dir fail with a server error on every Status
\* response, whatever its code: stat succeeds only on an Attrs response,
\* open and open_dir only on a Handle response.
C8_StatusIsNeverSuccess ==
    (pc = "p_idle" /\ result.op \in {"stat", "open", "open_dir"}
     /\ Len(channel.recvd) = 1) =>
       LET r == channel.recvd[1] IN
       /\ r.type = "Status" =>
            /\ result.kind = "ServerError"
            /\ result.code = r.status_code
       /\ result.kind = "Ok" <=>
            r.type = (IF result.op = "stat" THEN "Attrs" ELSE "Handle")

\* stat has failed on a Status response whose code is OK
C8_Witness ==
    /\ pc = "p_idle" /\ result.op = "stat" /\ Len(channel.recvd) = 1
    /\ LastResponse.type = "Status" /\ LastResponse.status_code = SftpStatus_Ok
    /\ result.kind = "ServerError"

RECURSIVE NamesRead(_, _, _)
\* the entries of the Name responses to the ReadDir requests among the first
\* k exchanges, in the order of arrival
NamesRead(sent, recvd, k) ==
    IF k = 0 THEN <<>>
    ELSE NamesRead(sent, recvd, k - 1)
         \o (IF sent[k].type = "ReadDir" /\ recvd[k].type = "Name"
             THEN recvd[k].files ELSE <<>>)

\* C9: when list_directory has succeeded for a path that was not cached, the
\* current listing is the concatenation, in order of arrival, of the entries
\* of all the Name responses to its ReadDir requests, and the cache entry of
\* the path holds the same list.
C9_ListingIsConcatenation ==
    (pc = "idle" /\ result.op = "ls" /\ result.kind = "Ok" /\ channel.sent # <<>>) =>
       LET files == NamesRead(channel.sent, channel.recvd, Len(channel.recvd)) IN
       /\ current_listing = files
       /\ cache_hit(directory_cache, result.target)
       /\ directory_cache[PathKey(result.target)] = files

\* the listing of "/" answered by Handle, Name[test.txt, /a], Name[/],
\* Status EOF and Status OK: three entries in the order of arrival, cached
\* for "/"
C9_Witness ==
    /\ pc = "idle" /\ result.op = "ls" /\ result.kind = "Ok" /\ result.target = Root
    /\ Len(channel.sent) = 5
    /\ channel.recvd[1].type = "Handle"
    /\ channel.recvd[4].type = "Status" /\ channel.recvd[4].status_code = SftpStatus_Eof
    /\ channel.recvd[5].type = "Status" /\ channel.recvd[5].status_code = SftpStatus_Ok
    /\ current_listing = <<FileInfo(TestTxt), FileInfo(PathA), FileInfo(Root)>>
    /\ directory_cache[PathKey(Root)] = current_listing

C11_ParentDirectory ==
    (result.op = "resolve_path" /\ result.target = DotDot) =>
       LET components == split_components(working_dir)
           parent == split_components(result.value)
       IN /\ is_absolute(result.value)
          /\ Len(components) <= 1 => result.value = Root
          /\ Len(components) > 1 =>
               /\ parent = SubSeq(components, 1, Len(components) - 1)
               /\ Len(result.value) = 2 * Len(parent)
               /\ \A i \in 1..Len(parent) :
                    result.value[2 * i - 1] = Sep /\ result.value[2 * i] = parent[i]
          /\ working_dir = <<Sep, "a", Sep, "b">> => result.value = PathA
          /\ working_dir = PathA => result.value = Root
          /\ working_dir = Root => result.value = Root

\* ".." has been resolved in the working directory "/a/b"
C11_Witness ==
    /\ result.op = "resolve_path" /\ result.target = DotDot
    /\ working_dir = <<Sep, "a", Sep, "b">>
    /\ result.value = PathA

\* C12, as claimed: resolve_path returns an absolute path unchanged, the
\* working directory for ".", and for every other relative path the working
\* directory joined with the path; it changes nothing of the session.
C12_ResolvePathJoinsOthers ==
    [][pc = "path" =>
         LET path == result'.target IN
         /\ UNCHANGED <<client_vars, next_request_id, channel>>
         /\ result'.value =
              IF is_absolute(path) THEN path
              ELSE IF path = Dot THEN working_dir
              ELSE path_join(working_dir, path)]_vars

\* C12, amended: resolve_path returns an absolute path unchanged, the
\* working directory for ".", the parent of the working directory for "..",
\* and for every other relative path the working directory joined with the
\* path; it changes nothing of the session.
C12_ResolvePath ==
    [][pc = "path" =>
         LET path == result'.target IN
         /\ UNCHANGED <<client_vars, next_request_id, channel>>
         /\ is_absolute(path) => result'.value = path
         /\ path = Dot => result'.value = working_dir
         /\ (~is_absolute(path) /\ path \notin {Dot, DotDot}) =>
              result'.value = path_join(working_dir, path)
         /\ path = DotDot => result'.value = get_parent_directory(working_dir)]_vars

\* "a/b" has been resolved in the working directory "/a": "/a/a/b"
C12_Witness ==
    /\ result.op = "resolve_path" /\ result.target = <<"a", Sep, "b">>
    /\ working_dir = PathA
    /\ result.value = <<Sep, "a", Sep, "a", Sep, "b">>

\* an operation of list_directory is running or was the last to return
InListing == frame.op = "ls" \/ (pc = "idle" /\ result.op = "ls")

\* C13: whenever list_directory has received a Handle in answer to its
\* OpenDir and returns without a failure of the transport, it has sent a
\* Close carrying that handle, also when a ReadDir was answered by a Status
\* other than EOF or by an unexpected packet.
C13_CloseAlwaysSent ==
    (/\ pc = "idle" /\ result.op = "ls"
     /\ Len(channel.recvd) >= 1 /\ channel.recvd[1].type = "Handle"
     /\ result.kind \in {"Ok", "ServerError", "UnexpectedPacket"}) =>
       \E i \in 1..Len(channel.sent) :
          /\ channel.sent[i].type = "Close"
          /\ channel.sent[i].handle = channel.recvd[1].handle

\* the response is an empty batch of entries
EmptyBatch(r) ==
    \/ r.type = "Status" /\ r.status_code = SftpStatus_Eof
    \/ r.type = "Name" /\ r.files = <<>>

\* C14: list_directory sends no ReadDir after the first empty batch, be it a
\* Status EOF or a Name response with no entry: the request that follows an
\* empty batch is Close.
C14_StopAtEmptyBatch ==
    InListing =>
       \A k \in 1..Len(channel.recvd) :
          (/\ channel.sent[k].type = "ReadDir"
           /\ EmptyBatch(channel.recvd[k])
           /\ Len(channel.sent) > k) => channel.sent[k + 1].type = "Close"

\* C15: the directory cache changes only in the step in which list_directory
\* returns success, and then it gains the entry of the listed path: the
\* OpenDir was answered by a Handle, the last ReadDir by Status EOF, and the
\* Close by anything but a Status with a code other than OK.  A
\* list_directory that returns an error leaves the cache as it was.
C15_CacheOnlyOnSuccess ==
    [][/\ directory_cache' # directory_cache =>
            /\ pc = "ls_recv_close" /\ pc' = "idle"
            /\ result'.op = "ls" /\ result'.kind = "Ok"
            /\ PathKey(frame.target_path) \notin DOMAIN directory_cache
            /\ DOMAIN directory_cache' =
                 DOMAIN directory_cache \cup {PathKey(frame.target_path)}
            /\ LET recvd == channel'.recvd
                   n == Len(recvd)
               IN /\ n >= 3 /\ Len(channel'.sent) = n
                  /\ recvd[1].type = "Handle"
                  /\ channel'.sent[n - 1].type = "ReadDir"
                  /\ recvd[n - 1].type = "Status"
                  /\ recvd[n - 1].status_code = SftpStatus_Eof
                  /\ ~(recvd[n].type = "Status" /\ recvd[n].status_code # SftpStatus_Ok)
       /\ (pc' = "idle" /\ result'.op = "ls" /\ result'.kind # "Ok") =>
            directory_cache' = directory_cache]_vars

\* a listing whose Close was answered by a packet that is not a Status has
\* been cached
C15_Witness ==
    /\ pc = "idle" /\ result.op = "ls" /\ result.kind = "Ok"
    /\ channel.sent # <<>>
    /\ LastResponse.type = "Handle"
    /\ cache_hit(directory_cache, result.target)

\* C16: once the directory cache holds an entry for a path, every later
\* state holds an entry for that path with the same file list: no step of
\* any command removes or replaces a cache entry.
C16_CacheEntriesPersist ==
    [][\A k \in DOMAIN directory_cache :
          /\ k \in DOMAIN directory_cache'
          /\ directory_cache'[k] = directory_cache[k]]_vars

\* a second listing has been cached next to the first one
C16_Witness ==
    /\ pc = "idle" /\ ncalls = 2
    /\ result.op = "ls" /\ result.kind = "Ok" /\ channel.sent # <<>>
    /\ DOMAIN directory_cache = {Root, PathA}

\* a step that starts list_directory, the path it lists, and whether it was
\* answered from the cache (no request written)
LsStarts ==
    /\ pc = "idle" /\ ncalls' = ncalls + 1
    /\ (frame'.op = "ls" \/ (pc' = "idle" /\ result'.op = "ls"))
LsTarget == IF pc' = "idle" THEN result'.target ELSE frame'.target_path
LsServed == pc' = "idle" /\ result'.kind = "Ok" /\ channel'.sent = <<>>

C18_RealPathForResolved ==
    [][/\ (pc = "idle" /\ pc' = "cd_recv_realpath") =>
            channel'.sent =
              <<RealPath(next_request_id,
                         resolve_path(working_dir, frame'.path_str))>>
       /\ (pc = "cd_recv_realpath" /\ pc' = "cd_recv_stat") =>
            Last(channel'.sent) =
              Stat(next_request_id, Last(channel'.recvd).files[1].name)]_vars

\* C19: a change_directory that returns Ok has replaced the working
\* directory by the path the RealPath response named, has emptied the
\* current listing, and has left every entry of the directory cache as it
\* was when the command started (no step of the command touches the cache).
C19_SuccessfulCd ==
    [][/\ (frame.op = "cd" /\ pc' = "idle" /\ result'.kind = "Ok") =>
            /\ channel'.recvd[1].type = "Name"
            /\ Len(channel'.recvd[1].files) = 1
            /\ working_dir' = channel'.recvd[1].files[1].name
            /\ current_listing' = <<>>
            /\ directory_cache' = frame.pre.directory_cache
       /\ (frame.op = "cd" \/ frame'.op = "cd") =>
            directory_cache' = directory_cache]_vars

\* a listing of "/" with one entry was cached and shown, then
\* change_directory moved to "/a": the listing shown is empty, the cached
\* one is still there
C19_Witness ==
    /\ pc = "idle" /\ ncalls = 2
    /\ result.op = "cd" /\ result.kind = "Ok"
    /\ working_dir = PathA
    /\ current_listing = <<>>
    /\ Root \in DOMAIN directory_cache
    /\ directory_cache[Root] # <<>>

RECURSIVE Payloads(_)
\* the payloads of the Data packets of a sequence of responses, end to end
Payloads(rs) ==
    IF rs = <<>> THEN <<>>
    ELSE (IF rs[1].type = "Data" THEN rs[1].data ELSE <<>>) \o Payloads(Tail(rs))

\* a response that sends read round its loop again: a Data of at least
\* chunk_size bytes
FullChunk(r) == r.type = "Data" /\ data_len(r.data) >= chunk_size

\* C20: read returns the Data payloads it received, end to end in arrival
\* order. It asks again only after a Data of at least 32768 bytes, so it
\* stops at the first shorter Data or the first Status EOF and returns Ok;
\* any other Status ends it with a ServerError carrying that status, and any
\* other response variant with an unexpected-packet error. A failed send or
\* receive ends it with the transport's error, after full chunks only.
C20_ReadConcatenates ==
    /\ (frame.op = "read" \/ (pc = "p_idle" /\ result.op = "read")) =>
         \A i \in 1..(Len(channel.recvd) - 1) : FullChunk(channel.recvd[i])
    /\ (pc = "p_recv" /\ frame.op = "read") =>
         /\ \A i \in DOMAIN channel.recvd : FullChunk(channel.recvd[i])
         /\ frame.data = Payloads(channel.recvd)
         /\ frame.offset = data_len(Payloads(channel.recvd))
         /\ Last(channel.sent).type = "Read"
         /\ Last(channel.sent).offset = frame.offset
         /\ Last(channel.sent).len = chunk_size
    /\ (pc = "p_idle" /\ result.op = "read"
          /\ result.kind \notin {"IoError", "ClientError"}) =>
         LET r == Last(channel.recvd) IN
         /\ channel.recvd # <<>>
         /\ result.kind = "Ok" <=>
              \/ r.type = "Data" /\ data_len(r.data) < chunk_size
              \/ r.type = "Status" /\ r.status_code = SftpStatus_Eof
         /\ result.kind = "Ok" => result.value = Payloads(channel.recvd)
         /\ result.kind = "ServerError" <=>
              r.type = "Status" /\ r.status_code # SftpStatus_Eof
         /\ result.kind = "ServerError" =>
              /\ result.code = r.status_code
              /\ result.request_id = r.request_id
              /\ result.message = r.message
         /\ result.kind = "UnexpectedPacket" <=> r.type \notin {"Data", "Status"}
    /\ (pc = "p_idle" /\ result.op = "read"
          /\ result.kind \in {"IoError", "ClientError"}) =>
         \A i \in DOMAIN channel.recvd : FullChunk(channel.recvd[i])

\* read got a full chunk and then a short one and returned both, in order
C20_Witness ==
    /\ pc = "p_idle" /\ result.op = "read" /\ result.kind = "Ok"
    /\ Len(channel.recvd) = 2
    /\ data_len(channel.recvd[1].data) = chunk_size
    /\ channel.recvd[2].type = "Data"
    /\ data_len(channel.recvd[2].data) = chunk_size - 1
    /\ result.value = <<Run(chunk_size, "full"), Run(chunk_size - 1, "short")>>

\* handles a server may put in a Handle frame
WireHandles == {<<>>, <<1, 2, 3>>, <<255, 0>>, <<0, 0, 0, 5, 102>>}

\* a step that starts an operation, and a step that writes a request
Started == ncalls' = ncalls + 1
NewRequest ==
    /\ channel'.sent # <<>>
    /\ Started \/ Len(channel'.sent) > Len(channel.sent)

\* C21: handles go back to the server as they came. Decoding a Handle frame,
\* by either reader and in either build, gives exactly the handle bytes of
\* the frame. A ReadDir or Close of list_directory carries the handle of the
\* Handle response that answered its OpenDir; the Close of close_handle
\* carries the handle stored for the path; read_dir, close and read of the
\* protocol layer carry the handle they were given; and the handle map only
\* ever stores the handle of a Handle response just received.
C21_HandlesVerbatim ==
    /\ \A h \in WireHandles, id \in {0, 1, 258}, checked \in BOOLEAN :
         /\ from_session(checked, Handle_frame(id, h)).status = "Ok"
         /\ from_session(checked, Handle_frame(id, h)).value = Handle(id, h)
         /\ from_bytes(checked, Handle_frame(id, h)).status = "Ok"
         /\ from_bytes(checked, Handle_frame(id, h)).value = Handle(id, h)
    /\ [][/\ (NewRequest /\ Last(channel'.sent).type \in {"ReadDir", "Close", "Read"}) =>
              LET handle == Last(channel'.sent).handle IN
              CASE pc = "ls_recv_opendir" ->
                     /\ Last(channel'.recvd).type = "Handle"
                     /\ handle = Last(channel'.recvd).handle
                [] pc = "ls_recv_readdir" ->
                     /\ channel'.recvd[1].type = "Handle"
                     /\ handle = channel'.recvd[1].handle
                [] pc = "idle" ->
                     \E path \in DOMAIN handles :
                        /\ handle = handles[path]
                        /\ path \notin DOMAIN handles'
                [] pc = "p_idle" ->
                     handle = IF pc' = "p_recv" THEN frame'.target_path
                              ELSE result'.target
                [] pc = "p_recv" -> handle = frame.target_path
                [] OTHER -> FALSE
         /\ \A k \in DOMAIN handles' :
              (k \notin DOMAIN handles \/ handles'[k] # handles[k]) =>
                /\ Len(channel'.recvd) > Len(channel.recvd)
                /\ Last(channel'.recvd).type = "Handle"
                /\ handles'[k] = Last(channel'.recvd).handle]_vars

\* a listing has sent its ReadDir and its Close with the three handle bytes
\* of the Handle frame that answered its OpenDir
C21_Witness ==
    /\ pc = "idle" /\ result.op = "ls" /\ result.kind = "Ok"
    /\ Len(channel.sent) >= 3
    /\ channel.recvd[1] = from_session(TRUE, HandleFrame).value
    /\ channel.sent[2].handle = SubSeq(HandleFrame, 14, 16)
    /\ Last(channel.sent).type = "Close"
    /\ Last(channel.sent).handle = SubSeq(HandleFrame, 14, 16)

\* a step that starts get_file_handle, and the path it is for
OpenStarts ==
    /\ pc = "idle" /\ Started
    /\ (frame'.op = "get_file_handle"
          \/ (pc' = "idle" /\ result'.op = "get_file_handle"))
OpenPath == IF pc' = "idle" THEN result'.target ELSE frame'.path_str

\* C22: get_file_handle of a path that has an entry in the handle map
\* returns the stored handle, writes nothing and leaves the map and the id
\* counter alone; without an entry it writes one Open request with the read
\* flag (or fails to). The map holds one handle per path.
C22_ReopenUsesStoredHandle ==
    /\ [][OpenStarts =>
            IF ~to_str(OpenPath) THEN result'.kind = "ClientError"
            ELSE IF OpenPath \in DOMAIN handles
            THEN /\ pc' = "idle"
                 /\ result' = Ok("get_file_handle", OpenPath, handles[OpenPath])
                 /\ channel'.sent = <<>>
                 /\ channel'.ids = channel.ids
                 /\ next_request_id' = next_request_id
                 /\ handles' = handles
            ELSE \/ /\ pc' = "get_file_handle_recv"
                    /\ channel'.sent =
                         <<Open(next_request_id, OpenPath, SSH_FXF_READ)>>
                 \/ pc' = "idle" /\ result'.kind = "IoError"]_vars
    /\ [](\A k \in DOMAIN handles : handles[k] \in Handles)

\* a second get_file_handle of "/a" was answered from the map
C22_Witness ==
    /\ pc = "idle" /\ ncalls = 2
    /\ result.op = "get_file_handle" /\ result.kind = "Ok"
    /\ channel.sent = <<>>
    /\ result.target = PathA
    /\ result.value = handles[PathA]

\* the error values an operation returns
ErrorKinds ==
    {"IoError", "ServerError", "ClientError", "NotADirectory",
     "UnexpectedPacket", "UnexpectedResponse"}

\* execute_command has returned
Dispatched ==
    /\ pc \in {"idle", "closed"}
    /\ result.op \in {"ls", "cd", "Pwd", "Help", "Bye"}

\* C23: whenever execute_command has returned, the value is Ok(false) exactly
\* when the command was Bye, and then the caller stops; Bye never returns an
\* error; every other command returned Ok(true) or the error of its
\* operation.
C23_ByeAloneStops ==
    Dispatched =>
      /\ (result.kind = "Ok" /\ result.value = <<FALSE>>) <=> result.op = "Bye"
      /\ pc = "closed" <=> result.op = "Bye"
      /\ result.op = "Bye" => result.kind = "Ok"
      /\ result.op # "Bye" =>
           \/ result.kind = "Ok" /\ result.value = <<TRUE>>
           \/ result.kind \in ErrorKinds

\* a listing returned Ok(true), then Bye returned Ok(false)
C23_Witness ==
    /\ pc = "closed" /\ ncalls = 2
    /\ result = Ok("Bye", <<>>, <<FALSE>>)
    /\ directory_cache # EmptyMap

\* the operation that is running or has just returned
CurrentOp == IF frame.op # "none" THEN frame.op ELSE result.op

\* r is a Status that the operation op takes for an error when it answers
\* the request req: any Status for OpenDir, RealPath, Stat and Open, any but
\* EOF for ReadDir and Read, any but OK for Close (close_handle reads the
\* answer to its Close and drops it)
ErrorStatus(op, req, r) ==
    /\ r.type = "Status"
    /\ CASE req.type \in {"OpenDir", "RealPath", "Stat", "Open"} -> TRUE
         [] req.type \in {"ReadDir", "Read"} -> r.status_code # SftpStatus_Eof
         [] req.type = "Close" ->
              op # "close_handle" /\ r.status_code # SftpStatus_Ok
         [] OTHER -> FALSE

ExpectedVariant(req) ==
    CASE req.type \in {"OpenDir", "Open"} -> "Handle"
      [] req.type \in {"RealPath", "ReadDir"} -> "Name"
      [] req.type = "Stat" -> "Attrs"
      [] req.type = "Read" -> "Data"
      [] OTHER -> "Status"

\* r is not what req asks for: another variant than the expected one and
\* not a Status, or a Name for RealPath without exactly one entry
Unexpected(req, r) ==
    \/ r.type \notin {ExpectedVariant(req), "Status"}
    \/ req.type = "RealPath" /\ r.type = "Name" /\ Len(r.files) # 1

\* C25: in every operation other than a close, construction included, a
\* response of the wrong variant, or a RealPath Name response without exactly
\* one entry, comes back as an UnexpectedPacket or UnexpectedResponse error.
C25_UnexpectedIsReported ==
    (/\ pc \in IdleStates /\ result.op # "none"
     /\ channel.recvd # <<>> /\ Len(channel.sent) = Len(channel.recvd)
     /\ Last(channel.sent).type \notin {"Init", "Close"}
     /\ Unexpected(Last(channel.sent), Last(channel.recvd))) =>
       result.kind \in {"UnexpectedPacket", "UnexpectedResponse"}

\* the paths of the requests written by the running operation
WirePaths ==
    {channel.sent[i].path :
       i \in {j \in DOMAIN channel.sent :
                channel.sent[j].type \in {"OpenDir", "RealPath", "Stat", "Open"}}}

\* the path holds the bytes that are not UTF-8
InvalidUtf8(path) == \E i \in DOMAIN path : path[i] = "\\xFF"

\* C26: a path that is not valid UTF-8 never reaches the transport. A
\* list_directory, change_directory or get_file_handle given one returns a
\* client error in the step that starts it, having written no request, with
\* the id counter, the transport and the client's state as they were.
C26_InvalidUtf8Rejected ==
    /\ [](\A path \in WirePaths : ~InvalidUtf8(path))
    /\ [][(/\ pc = "idle" /\ Started
            /\ CurrentOp' \in {"ls", "cd", "get_file_handle"}
            /\ InvalidUtf8(IF pc' = "idle" THEN result'.target
                           ELSE frame'.path_str)) =>
              /\ pc' = "idle"
              /\ result'.kind = "ClientError"
              /\ result'.message = "Invalid UTF-8 in path"
              /\ channel' = begin_call(channel)
              /\ next_request_id' = next_request_id
              /\ UNCHANGED client_vars]_vars

\* after a listing, change_directory was given a path that is not UTF-8 and
\* returned the client error; nothing was written for it
C26_Witness ==
    /\ pc = "idle" /\ ncalls = 2
    /\ result.op = "cd" /\ result.kind = "ClientError"
    /\ result.target = BadUtf8
    /\ channel.sent = <<>>
    /\ directory_cache # EmptyMap

\* C29: a Get command runs to a result: it resolves the remote path, gets a
\* handle by an Open with the read flag or from the handle map, reads the
\* file, and execute_command returns Ok(true) or an error to its caller; the
\* process is never aborted.
C29_GetReturns ==
    /\ pc # "panicked"
    /\ (frame.op = "Get" \/ result.op = "Get") =>
         /\ channel.sent # <<>>
         /\ channel.sent[1].type \in {"Open", "Read"}

\* the u32 four bytes spell most significant byte first, from position i
U32At(bytes, i) ==
    bytes[i] * 16777216 + bytes[i + 1] * 65536 + bytes[i + 2] * 256 + bytes[i + 3]

\* the type code of each request
RequestTag(type) ==
    CASE type = "Init" -> SSH_FXP_INIT
      [] type = "Open" -> SSH_FXP_OPEN
      [] type = "Close" -> SSH_FXP_CLOSE
      [] type = "OpenDir" -> SSH_FXP_OPENDIR
      [] type = "ReadDir" -> SSH_FXP_READDIR
      [] type = "RealPath" -> SSH_FXP_REALPATH
      [] type = "Stat" -> SSH_FXP_STAT

\* the string or handle a request with a request id carries
RequestField(pkt) ==
    IF pkt.type \in {"ReadDir", "Close"} THEN pkt.handle ELSE pkt.path

\* C28: every encoded request is a 4-byte big-endian length equal to the
\* number of bytes after it, then the type tag, then the payload: the
\* version for Init, otherwise the request id and the length-prefixed path
\* or handle, which Open follows with its 4-byte pflags.
C28_FrameLayout ==
    result.op = "to_bytes" =>
      LET pkt == result.target
          bytes == result.value
      IN /\ Len(bytes) >= 5
         /\ \A i \in DOMAIN bytes : bytes[i] \in 0..255
         /\ U32At(bytes, 1) = Len(bytes) - 4
         /\ bytes[5] = RequestTag(pkt.type)
         /\ IF pkt.type = "Init"
            THEN Len(bytes) = 9 /\ U32At(bytes, 6) = pkt.version
            ELSE LET field == RequestField(pkt) IN
                 /\ Len(bytes) >= 13 + Len(field)
                 /\ U32At(bytes, 6) = pkt.request_id
                 /\ U32At(bytes, 10) = Len(field)
                 /\ SubSeq(bytes, 14, 13 + Len(field)) = field
                 /\ IF pkt.type = "Open"
                    THEN /\ Len(bytes) = 17 + Len(field)
                         /\ U32At(bytes, 14 + Len(field)) = pkt.pflags
                    ELSE Len(bytes) = 13 + Len(field)

\* OpenDir{258, "/home"} has been encoded: length 14, tag 11, id, path
C28_Witness ==
    /\ result.op = "to_bytes"
    /\ result.target = OpenDir(258, <<47, 104, 111, 109, 101>>)
    /\ result.value = <<0, 0, 0, 14, 11, 0, 0, 1, 2, 0, 0, 0, 5,
                        47, 104, 111, 109, 101>>

\* C27: a decoding call either fails with an error or returns a packet
\* having consumed exactly the length field and the bytes it declares.
C27_ExactFraming ==
    result.op \in {"from_bytes", "from_session"} =>
      \/ result.kind = "Err"
      \/ /\ result.kind = "Ok"
         /\ result.value.position = 4 + U32At(result.target, 1)

\* the file type the S_IFMT field of a mode selects
TypeOfMode(perms) ==
    LET field == (perms \div 4096) % 16 IN
    CASE field = 4 -> "Directory"
      [] field = 8 -> "RegularFile"
      [] field = 10 -> "Symlink"
      [] field = 2 -> "CharacterDevice"
      [] field = 6 -> "BlockDevice"
      [] field = 1 -> "Fifo"
      [] field = 12 -> "Socket"
      [] OTHER -> "Unknown"

\* the attributes a decoded packet carries
DecodedAttrs(pkt) ==
    IF pkt.type = "Attrs" THEN {pkt.attrs}
    ELSE IF pkt.type = "Name" THEN {pkt.files[i].attrs : i \in DOMAIN pkt.files}
    ELSE {}

\* C30: in every decoded FileAttributes, by either reader, file_type is the
\* type the permissions select and the three booleans say whether it is
\* Directory, RegularFile, Symlink; without permissions it is Unknown and
\* the booleans are false.
C30_FileTypeFromPermissions ==
    (result.op \in {"from_bytes", "from_session"} /\ result.kind = "Ok") =>
      \A a \in DecodedAttrs(result.value.packet[1]) :
        /\ a.file_type = IF a.permissions = NoValue THEN "Unknown"
                         ELSE TypeOfMode(a.permissions[1])
        /\ a.is_directory = (a.file_type = "Directory")
        /\ a.is_regular_file = (a.file_type = "RegularFile")
        /\ a.is_symlink = (a.file_type = "Symlink")

\* the Read requests of the read that is running or has just returned
ReadLog == (frame.op = "read" \/ (pc = "p_idle" /\ result.op = "read"))

\* the number of Data bytes received before the i-th request was written
ReceivedBefore(i) == data_len(Payloads(SubSeq(channel.recvd, 1, i - 1)))

\* C31, as claimed: the first Read asks for offset 0, each later one for the
\* number of Data bytes received so far; offsets strictly increase and each
\* requested range starts where the one before it ends.
C31_RangesAdjoin ==
    ReadLog =>
      \A i \in DOMAIN channel.sent :
        /\ channel.sent[i].type = "Read"
        /\ channel.sent[i].offset = ReceivedBefore(i)
        /\ i > 1 =>
             /\ channel.sent[i].offset > channel.sent[i - 1].offset
             /\ channel.sent[i].offset
                  = channel.sent[i - 1].offset + channel.sent[i - 1].len

\* C31, amended: the first Read asks for offset 0, each later one for the
\* number of Data bytes received so far; offsets strictly increase and the
\* requested ranges never overlap. A range starts where the one before it
\* ends when the Data that answered that one is no longer than was asked
\* for; after a longer Data the bytes between are never requested.
C31_OffsetIsBytesReceived ==
    ReadLog =>
      \A i \in DOMAIN channel.sent :
        /\ channel.sent[i].type = "Read"
        /\ channel.sent[i].len = chunk_size
        /\ channel.sent[i].offset = ReceivedBefore(i)
        /\ i > 1 =>
             /\ channel.sent[i].offset > channel.sent[i - 1].offset
             /\ channel.sent[i].offset
                  >= channel.sent[i - 1].offset + channel.sent[i - 1].len
             /\ data_len(channel.recvd[i - 1].data) <= channel.sent[i - 1].len
                  => channel.sent[i].offset
                       = channel.sent[i - 1].offset + channel.sent[i - 1].len

\* read received a full chunk and a longer one and has asked a third time,
\* from the offset where the data it holds ends
C31_Witness ==
    /\ pc = "p_recv" /\ frame.op = "read"
    /\ Len(channel.sent) = 3
    /\ data_len(channel.recvd[1].data) = chunk_size
    /\ data_len(channel.recvd[2].data) = chunk_size + 1
    /\ channel.sent[1].offset = 0
    /\ channel.sent[2].offset = chunk_size
    /\ channel.sent[3].offset = 2 * chunk_size + 1

\* C32: a.to_bytes() decoded by parse_file_attributes is consumed whole and
\* gives back the size, permissions and modify_time of a, present or absent
\* as in a.
C32_AttrsRoundTrip ==
    result.op = "attrs_round_trip" =>
      /\ result.kind = "Ok"
      /\ result.value.position = Len(result.value.data)
      /\ result.value.attrs[1].size = result.target.size
      /\ result.value.attrs[1].permissions = result.target.permissions
      /\ result.value.attrs[1].modify_time = result.target.modify_time

\* whether bit is set in the u32 the four bytes at the front of data spell,
\* for a bit of the lowest byte
FlagByte(data, bit) == (data[4] \div bit) % 2 = 1

\* the bytes the fixed-size fields take that the flags word of data announces
FixedFields(data) ==
    (IF FlagByte(data, 1) THEN 8 ELSE 0) + (IF FlagByte(data, 2) THEN 8 ELSE 0)
    + (IF FlagByte(data, 4) THEN 4 ELSE 0) + (IF FlagByte(data, 8) THEN 8 ELSE 0)

\* C40: when parse_file_attributes returns, the len it reports is the
\* number of bytes it consumed after the flags word: 8 for SIZE, 8 for
\* UIDGID, 4 for PERMISSIONS, 8 for ACMODTIME and, with EXTENDED, 4 for the
\* count and 8 plus the lengths of name and value for each pair.
C40_LenIsBytesConsumed ==
    (result.op = "parse_file_attributes" /\ result.kind = "Ok") =>
      LET data == result.value.data
          extended == data[1] >= 128
      IN /\ result.value.len = result.value.position - 4
         /\ ~extended => result.value.len = FixedFields(data)
         /\ extended => result.value.len >= FixedFields(data) + 4
         /\ result.value.position \in {Len(data), Len(data) - 2}

\* permissions and one extended pair ("a", "bc") have been parsed from
\* bytes with two more behind them: 4 + 4 + 8 + 1 + 2 = 19 reported, 23
\* consumed with the flags word
C40_Witness ==
    /\ result.op = "parse_file_attributes" /\ result.kind = "Ok"
    /\ result.value.data[1] = 128 /\ result.value.data[4] = 4
    /\ Len(result.value.data) = 25
    /\ result.value.len = 19
    /\ result.value.position = 23

\* a decoding call has ended
DecodeDone == result.op \in {"from_bytes", "from_session"}

\* the length the frame at the front of the bytes decoded declares, and
\* whether all of that frame was there to read
DeclaredLength == U32At(result.target, 1)
FrameAvailable == Len(result.target) >= 4 + DeclaredLength

\* C37: a decoding call that fails although the whole frame was available
\* has consumed the whole frame, length field included, so that the next
\* read starts at the next frame.
C37_FailureConsumesFrame ==
    (DecodeDone /\ result.kind = "Err" /\ FrameAvailable) =>
      result.value.position = 4 + DeclaredLength

\* C38: a decoding call ends by returning a packet or an error, never by
\* aborting, and its count of remaining bytes has not gone below zero.
C38_DecodeNeverAborts ==
    DecodeDone =>
      /\ result.kind \in {"Ok", "Err"}
      /\ result.value.remaining >= 0

\* C39: ServerPacket::from_bytes gives on every byte sequence what
\* ServerPacket::from_session gives on it: the same outcome, the same
\* packet with the same attributes, the same number of bytes consumed.
C39_ReadersAgree ==
    result.op = "from_bytes" =>
      LET other == Decoded("from_session", result.target,
                           from_session(result.value.checked, result.target))
      IN /\ result.kind = other.kind
         /\ result.value.packet = other.value.packet
         /\ result.value.position = other.value.position

\* C33: whenever the client waits for a response, the request it waits
\* for, Init included, has been written and the channel flushed since.
C33_FlushedBeforeRead ==
    pc \notin IdleStates =>
      /\ channel.sent # <<>>
      /\ channel.flushed

\* the request budget of the model leaves room for the longest listing: as
\* many Name batches as the model allows, the closing Status and Close
RoomToFinish == Len(channel.ids) + MaxBatches + 2 <= MaxRequests

\* a turn of the ReadDir loop: one response is consumed, or the read fails;
\* the loop goes on only after a Name, with one more ReadDir written, and
\* anything else written is the one Close after Status EOF
LoopTurn ==
    pc = "ls_recv_readdir" =>
      /\ \/ Len(channel'.recvd) = Len(channel.recvd) + 1
         \/ /\ channel'.recvd = channel.recvd
            /\ channel'.lost
            /\ channel'.sent = channel.sent
            /\ pc' = "idle" /\ result'.kind = "ClientError"
      /\ Len(channel'.sent) <= Len(channel.sent) + 1
      /\ pc' = "ls_recv_readdir" =>
           /\ Last(channel'.recvd).type = "Name"
           /\ Len(channel'.sent) = Len(channel.sent) + 1
           /\ Last(channel'.sent).type = "ReadDir"
      /\ (/\ Len(channel'.recvd) > Len(channel.recvd)
          /\ Last(channel'.recvd).type # "Name") =>
           /\ pc' \in {"ls_recv_close", "idle"}
           /\ \A i \in (Len(channel.sent) + 1)..Len(channel'.sent) :
                channel'.sent[i].type = "Close"

\* C34: with a server that answers, a list_directory that has sent OpenDir
\* returns: the Name responses to ReadDir come to an end, and the first
\* response that is not a Name, or a failure of the transport, ends the
\* loop. Each turn of the loop writes one ReadDir and consumes one response.
C34_ListingTerminates ==
    /\ (pc = "ls_recv_opendir" /\ RoomToFinish)
         ~> (pc = "idle" /\ result.op = "ls")
    /\ [][LoopTurn]_vars

\* the loop has gone round as often as the model allows and has then been
\* ended by Status EOF, after which Close was written
C34_Witness ==
    /\ pc = "ls_recv_close"
    /\ batches(channel) = MaxBatches
    /\ Last(channel.recvd).type = "Status"
    /\ Len(channel.sent) = MaxBatches + 3
    /\ Last(channel.sent).type = "Close"

\* what Ls and Cd show and keep: working directory, current listing, cache
SessionView == <<working_dir, current_listing, directory_cache>>

\* this step is the return of list_directory or change_directory with an
\* error
LsOrCdFails ==
    /\ pc # "idle" \/ ncalls' # ncalls
    /\ pc' \in IdleStates
    /\ result'.op \in {"ls", "cd"}
    /\ result'.kind \notin {"Ok", "none"}

\* C35: when list_directory or change_directory returns an error, whatever
\* the error (ServerError, UnexpectedPacket, UnexpectedResponse, a failed
\* Stat, NotADirectory, a failure of the transport or of to_str), the
\* working directory, the current listing and the directory cache are the
\* ones the command started with; and no step of a command that is still
\* running has changed them.
C35_ErrorLeavesSessionView ==
    [][/\ LsOrCdFails =>
            /\ SessionView' = SessionView
            /\ frame.op \in {"ls", "cd"} =>
                 SessionView' = <<frame.pre.working_dir,
                                  frame.pre.current_listing,
                                  frame.pre.directory_cache>>
       /\ (frame.op \in {"ls", "cd"} /\ frame'.op = frame.op) =>
            SessionView' = SessionView]_vars

\* a listing was cached and shown, and then a change_directory failed after
\* its RealPath had been answered: the listing and the cache are still there
C35_Witness ==
    /\ pc = "idle" /\ ncalls = 2
    /\ result.op = "cd"
    /\ result.kind \in {"NotADirectory", "ServerError", "UnexpectedResponse"}
    /\ Len(channel.recvd) = 2
    /\ current_listing # <<>>
    /\ DOMAIN directory_cache # {}

\* the handles list_directory has sent Close for, in the listing that is
\* running or has just returned
ClosedByListing ==
    IF pc = "ls_recv_close" \/ (pc = "idle" /\ result.op = "ls")
    THEN {channel.sent[i].handle :
            i \in {j \in 1..Len(channel.sent) : channel.sent[j].type = "Close"}}
    ELSE {}

\* C36: every handle in the handle map is open on the server; once
\* list_directory has sent Close for the handle of a directory, no entry of
\* the map holds that handle.
C36_MapHoldsOpenHandles ==
    \A path_str \in DOMAIN handles : handles[path_str] \notin ClosedByListing

====
